---- MODULE Spec2Model ----
(***************************************************************************)
(* Client-side state of the LeRobot data studio frontend:                  *)
(*   - the episode selection store   (hooks/useSelectedEpisodes.ts)        *)
(*   - the task tagging store        (hooks/useTaskManagement.ts)          *)
(*   - the creation request builder  (utils/createDataset.ts)              *)
(*   - the creation status poller    (components/DatasetViewer.tsx)        *)
(*   - the dataset-ready wait        (services/api.ts, waitForDataset)     *)
(*   - the video preloader           (hooks/useVideoPreloader.ts)          *)
(*                                                                         *)
(* React state is modelled as it behaves: a state setter queues an update, *)
(* the next render applies the queued updates in order and then runs the   *)
(* effects whose dependencies changed.                                     *)
(***************************************************************************)
EXTENDS Integers, Sequences, FiniteSets, TLC

VARIABLES
    \* ---- useSelectedEpisodes ----
    selMounted,         \* the hook instance exists
    strictMode,         \* mount effects are run twice (React.StrictMode, dev build)
    selDatasetId,       \* the datasetId argument of the current render ("" = absent)
    selectedEpisodes,   \* committed value of useState<SelectedEpisodesState>
    selUpdates,         \* updates queued by setSelectedEpisodes, not yet rendered
    selStorage,         \* localStorage item 'selectedEpisodes'
    parityKnown,        \* history: toggles of the active dataset are counted, from
                        \*   a moment at which its selection was empty
    toggleParity,       \* history: parity of the toggleEpisode calls counted, per episode
    selFresh,           \* history: no mutation was called since the mount
    selPrevSession      \* history: committed state at the last unmount (while selFresh)

VARIABLES
    \* ---- useTaskManagement ----
    taskMounted,        \* the hook instance exists
    taskDatasetId,      \* the datasetId argument of the current render
    availableTasks,     \* committed value of useState<string[]>
    episodeTasks,       \* committed value of useState<Record<number, string>>
    taskUpdates,        \* calls whose state updates are queued, not yet rendered
    taskStorage,        \* localStorage items, by the dataset id of their key
    taskCalls,          \* history: number of addTask / removeTask / setEpisodeTask calls
    usedUnder,          \* history: labels passed to addTask / setEpisodeTask, per dataset
    lastRemoved,        \* history: label of the removeTask applied last by the last render
    taskFresh,          \* history: no mutation was called since the mount
    taskPrevSession     \* history: committed state at the last unmount (while taskFresh)

VARIABLES
    \* ---- createDatasetRequest ----
    reqInput,           \* the CreateDatasetParams of a call
    reqOutput           \* None before the call, then the outcome of the call

VARIABLES
    \* ---- DatasetViewer: dataset creation and its status polling ----
    viewerMounted,         \* the DatasetViewer instance exists
    episodeData,           \* committed: the episode query has data
    isCreateModalVisible,  \* committed useState
    showStatusModal,       \* committed useState
    creationTaskId,        \* committed useState, 0 is null
    creationStatus,        \* committed useState, NullStatus is null
    viewPending,           \* state updates of the viewer queued for the next render
    formValue,             \* the form's new_repo_id field
    intervalTask,          \* task id captured by the live polling effect, 0: no interval
    createInFlight,        \* the create request in flight, if any
    inflight,              \* status requests in flight: how many per task and per
                           \*   status the task had when the request was sent
    jobState,              \* the server's state of each creation task: its
                           \*   status and the message it gives with it
    polledTerminal,        \* history: tasks of which a terminal response was processed
    closedJobs,            \* history: tasks whose status the user closed the modal on
    errorsSeen             \* history: status requests that failed

VARIABLES
    \* ---- datasetApi.waitForDataset ----
    waitPc,             \* "idle": not called; "request": awaiting getDatasetStatus;
                        \*   "sleep": awaiting the setTimeout; "resolved"; "rejected"
    retries,            \* the local variable retries
    waitOnProgress,     \* the onProgress argument is given
    waitError,          \* message of the Error the promise is rejected with
    waitLast,           \* the response received last
    waitRequests,       \* history: calls of getDatasetStatus
    waitResponses,      \* history: responses received
    waitProgressCalls,  \* history: calls of onProgress
    waitFailures        \* history: calls of getDatasetStatus that threw

VARIABLES
    \* ---- useVideoPreloader ----
    preMounted,         \* the hook instance exists
    preCurrent,         \* the currentEpisodeId argument of the last render
    preTotal,           \* the totalEpisodes argument of the last render
    preCount,           \* the preloadCount argument of the last render
    preUrls,            \* getVideoUrl of the last render: the URL of each episode id
    preloadedVideos,    \* the Map of the ref: the video element of each episode id
    preReleased         \* history: the ids whose elements the last run released

VARIABLES
    \* ---- MergeDatasets ----
    mergeMounted,       \* the page instance exists
    currentUser,        \* data of the currentUser query: None while it has none
    datasets,           \* committed useState<DatasetEntry[]>
    selectedDatasets,   \* committed useState<Set<string>> of useSelectedDatasets
    mergeStorage,       \* localStorage item 'mergeDatasets_selectedDatasets'
    validating,         \* validate requests in flight, per repository id
    mergeSent           \* the merge request sent last, if any

VARIABLES
    \* ---- two browser tabs, each with its instance of useSelectedEpisodes ----
    tabs,               \* per tab: mounted, datasetId, the committed
                        \*   selectedEpisodes and the updates queued
    lastMutator,        \* history: the tab that called a mutator last, 0: none
    lastWriter          \* history: the tab whose save effect ran last, 0: none

VARIABLES
    \* ---- HomePage ----
    homeMounted,        \* the page instance exists
    inputValue,         \* committed useState
    validationStatus,   \* committed useState
    validationMessage,  \* committed useState
    listedDatasets,     \* data of the datasets query: None while it has none
    homeInflight,       \* validate requests in flight, per value validated
    navigatedTo,        \* the repo id handed to handleDatasetSelect last, if any
    statusOf,           \* history: the value whose validation set the status last
    hubConfirmed        \* history: values a validate response said to exist

VARIABLES
    \* ---- DatasetViewer: navigation and keyboard ----
    currentEpisode,           \* committed useState currentEpisodeId, as twice its value
    episodesList,             \* the episodes query has data: the sidebar is rendered
    paused,                   \* the paused flag of the videos of VideoPlayer
    isShortcutsModalVisible   \* committed useState

selVars == <<selMounted, selDatasetId, selectedEpisodes, selUpdates,
             selStorage, parityKnown, toggleParity, selFresh, selPrevSession>>

taskVars == <<taskMounted, taskDatasetId, availableTasks, episodeTasks, taskUpdates,
              taskStorage, taskCalls, usedUnder, lastRemoved, taskFresh,
              taskPrevSession>>

reqVars == <<reqInput, reqOutput>>

pollVars == <<viewerMounted, episodeData, isCreateModalVisible, showStatusModal,
              creationTaskId, creationStatus, viewPending, formValue, intervalTask,
              createInFlight, inflight, jobState, polledTerminal, closedJobs,
              errorsSeen>>

waitVars == <<waitPc, retries, waitOnProgress, waitError, waitLast, waitRequests,
              waitResponses, waitProgressCalls, waitFailures>>

preVars == <<preMounted, preCurrent, preTotal, preCount, preUrls, preloadedVideos,
             preReleased>>

mergeVars == <<mergeMounted, currentUser, datasets, selectedDatasets, mergeStorage,
               validating, mergeSent>>

tabVars == <<tabs, lastMutator, lastWriter>>

\* the pages and hooks modelled apart from the viewer
homeVars == <<homeMounted, inputValue, validationStatus, validationMessage,
              listedDatasets, homeInflight, navigatedTo, statusOf, hubConfirmed>>

uiVars == <<currentEpisode, episodesList, paused, isShortcutsModalVisible>>

extraVars == <<tabVars, homeVars, uiVars>>

\* the parts of the client outside the viewer's stores
utilVars == <<waitVars, preVars, mergeVars, extraVars>>

\* the stores and the viewer
storeVars == <<strictMode, selVars, taskVars, reqVars, pollVars>>

vars == <<storeVars, utilVars>>

\* what the actions of one store leave alone
selOthers == <<strictMode, taskVars, reqVars, pollVars, utilVars>>
taskOthers == <<strictMode, selVars, reqVars, pollVars, utilVars>>
reqOthers == <<strictMode, selVars, taskVars, pollVars, utilVars>>
\* the viewer drives the selection store; its history variables stay as they are
selHistory == <<parityKnown, toggleParity, selFresh, selPrevSession>>
pollOthers == <<strictMode, taskVars, reqVars, selHistory, selDatasetId, utilVars>>
waitOthers == <<storeVars, preVars, mergeVars, extraVars>>
preOthers == <<storeVars, waitVars, mergeVars, extraVars>>
mergeOthers == <<storeVars, waitVars, preVars, extraVars>>
\* the tabs share the stored item of the selection store
tabOthers == <<strictMode, selMounted, selDatasetId, selectedEpisodes, selUpdates,
               selHistory, taskVars, reqVars, pollVars, waitVars, preVars, mergeVars,
               homeVars, uiVars>>
homeOthers == <<storeVars, waitVars, preVars, mergeVars, tabVars, uiVars>>

----------------------------------------------------------------------------
\* Bounds
MaxEpisode == 1          \* episode ids are 0..MaxEpisode
MaxPending == 2          \* state updates queued between two renders
MaxSelected == 2         \* length of the selectedEpisodes argument of createDatasetRequest
MaxTaskCalls == 3        \* calls of the task store's mutators in one behaviour
MaxJobs == 1             \* creation tasks started in one behaviour
MaxInFlight == 2         \* status requests in flight at once
MaxErrors == 1           \* status requests that fail in one behaviour
MaxTotal == 5            \* episodes of a dataset given to the preloader
MaxWindow == 2           \* the preloadCount given to the preloader
MaxDatasets == 2         \* entries of the merge page's dataset list
MaxTabPending == 1       \* updates a tab queues between two of its renders

Datasets == {"A", "B"}
Labels == {"a", "b"}
Undefined == "undefined"
NoLabel == "-"
NoDataset == ""
Episodes == 0..MaxEpisode

----------------------------------------------------------------------------
\* JavaScript values

\* an optional value: <<>> is null / undefined, <<v>> is v
None == <<>>
Some(v) == <<v>>

\* {} , obj[k] , {...obj, [k]: v} , delete obj[k]
EmptyObj == <<>>
Has(obj, k) == k \in DOMAIN obj
Put(obj, k, v) == [x \in (DOMAIN obj) \cup {k} |-> IF x = k THEN v ELSE obj[x]]
Delete(obj, k) == [x \in (DOMAIN obj) \ {k} |-> obj[x]]

\* Array.prototype.includes / filter(x => x !== v)
Includes(arr, v) == \E i \in 1..Len(arr) : arr[i] = v
FilterOut(arr, v) == SelectSeq(arr, LAMBDA x : x # v)

\* Array.prototype.sort((a, b) => a - b), a stable ascending sort
RECURSIVE InsertSorted(_, _)
InsertSorted(arr, v) ==
    IF arr = <<>> THEN <<v>>
    ELSE IF v < Head(arr) THEN <<v>> \o arr
    ELSE <<Head(arr)>> \o InsertSorted(Tail(arr), v)

RECURSIVE SortAsc(_)
SortAsc(arr) ==
    IF arr = <<>> THEN <<>>
    ELSE InsertSorted(SortAsc(SubSeq(arr, 1, Len(arr) - 1)), arr[Len(arr)])

\* JSON.stringify / JSON.parse of a value made of objects, arrays, numbers and
\* strings: the text determines the value and nothing else
JSONstringify(v) == [json |-> v]
JSONparse(text) == text.json

----------------------------------------------------------------------------
\* useSelectedEpisodes

\* prev[datasetId] || []
SelList(state, ds) == IF Has(state, ds) THEN state[ds] ELSE <<>>

\* the updater passed to setSelectedEpisodes by toggleEpisode
ToggleUpdater_NoRemove(prev, ds, ep) ==
    Put(prev, ds, SortAsc(Append(SelList(prev, ds), ep)))

ToggleUpdater(prev, ds, ep) ==
    LET current == SelList(prev, ds)
    IN  IF Includes(current, ep)
        THEN Put(prev, ds, FilterOut(current, ep))
        ELSE Put(prev, ds, SortAsc(Append(current, ep)))

\* the updater of clearSelection
ClearUpdater_AllDatasets(prev, ds) == [k \in DOMAIN prev \cup {ds} |-> <<>>]

ClearUpdater(prev, ds) == Put(prev, ds, <<>>)

\* the updater of selectAll
SelectAllUpdater_KeepsEarlier(prev, ds, ids) ==
    Put(prev, ds, SortAsc(SelList(prev, ds) \o ids))

SelectAllUpdater(prev, ds, ids) == Put(prev, ds, SortAsc(ids))

\* one queued update applied to the state
ApplySelUpdate(prev, u) ==
    CASE u.op = "set"    -> u.value
      [] u.op = "toggle" -> ToggleUpdater(prev, u.ds, u.ep)
      [] u.op = "clear"  -> ClearUpdater(prev, u.ds)
      [] u.op = "all"    -> SelectAllUpdater(prev, u.ds, u.ids)

RECURSIVE ApplySelUpdates(_, _)
ApplySelUpdates(prev, us) ==
    IF us = <<>> THEN prev
    ELSE ApplySelUpdates(ApplySelUpdate(prev, Head(us)), Tail(us))

\* the load effect: reads the item and queues the parsed state
SelLoadEffect(stored, updates) ==
    IF stored # None
    THEN Append(updates, [op |-> "set", value |-> JSONparse(stored[1])])
    ELSE updates

\* the save effect: writes the state of the render it belongs to
SelSaveEffect_ActiveOnly(state) ==
    Some(JSONstringify([ds \in DOMAIN state \cap {"A"} |-> state[ds]]))

SelSaveEffect(state) == Some(JSONstringify(state))

\* both effects, in declaration order, after the commit of a render
SelMountEffects(stored, updates, state) ==
    [updates |-> SelLoadEffect(stored, updates), stored |-> SelSaveEffect(state)]

\* isSelected / getSelectedForDataset / selectedCount of the current render
isSelected(ep) ==
    IF selDatasetId = NoDataset THEN FALSE
    ELSE Includes(SelList(selectedEpisodes, selDatasetId), ep)

getSelectedForDataset ==
    IF selDatasetId = NoDataset THEN <<>>
    ELSE SelList(selectedEpisodes, selDatasetId)

selectedCount == Len(getSelectedForDataset)

ZeroParity == [e \in Episodes |-> 0]

\* a queue of updates has room for one more
SelRoom == Len(selUpdates) < MaxPending

\* episode ids MaxEpisode, ..., 0: an unsorted list of all episodes
RECURSIVE Descending(_)
Descending(n) == IF n < 0 THEN <<>> ELSE <<n>> \o Descending(n - 1)

\* lists of episode ids handed to selectAll
IdLists == {<<>>, Descending(MaxEpisode)} \cup {<<e>> : e \in Episodes}

\* counting of toggles (re)starts when the selection of dataset ds in state is empty
CountFrom(state, ds) == ds # NoDataset /\ SelList(state, ds) = <<>>

\* first render of a hook instance: useState({}) , then the mount effects,
\* which React.StrictMode runs a second time on the same render
SelMount ==
    /\ ~selMounted
    /\ LET first == SelMountEffects(selStorage, <<>>, EmptyObj)
           second == SelMountEffects(first.stored, first.updates, EmptyObj)
           res == IF strictMode THEN second ELSE first
       IN  /\ selUpdates' = res.updates
           /\ selStorage' = res.stored
           /\ parityKnown' = CountFrom(ApplySelUpdates(EmptyObj, res.updates),
                                       selDatasetId)
    /\ selMounted' = TRUE
    /\ selectedEpisodes' = EmptyObj
    /\ toggleParity' = ZeroParity
    /\ selFresh' = TRUE
    /\ UNCHANGED <<selOthers, selDatasetId, selPrevSession>>

\* a render: the queued updates are applied in order; the state object is a
\* new one, so the save effect runs
SelRender ==
    /\ selMounted
    /\ selUpdates # <<>>
    /\ selectedEpisodes' = ApplySelUpdates(selectedEpisodes, selUpdates)
    /\ selUpdates' = <<>>
    /\ selStorage' = SelSaveEffect(selectedEpisodes')
    /\ UNCHANGED <<selOthers, selMounted, selDatasetId, parityKnown,
                   toggleParity, selFresh, selPrevSession>>

\* the route parameters change: the same hook instance is rendered again with
\* another datasetId; queued updates are applied by that render
SelSwitchDataset ==
    /\ selMounted
    /\ \E ds \in (Datasets \cup {NoDataset}) \ {selDatasetId} :
         /\ selDatasetId' = ds
         /\ selectedEpisodes' = ApplySelUpdates(selectedEpisodes, selUpdates)
         /\ parityKnown' = CountFrom(selectedEpisodes', ds)
    /\ selUpdates' = <<>>
    /\ selStorage' = IF selUpdates # <<>> THEN SelSaveEffect(selectedEpisodes')
                     ELSE selStorage
    /\ toggleParity' = ZeroParity
    /\ UNCHANGED <<selOthers, selMounted, selFresh, selPrevSession>>

toggleEpisode(ep) ==
    /\ selMounted
    /\ SelRoom
    /\ IF selDatasetId = NoDataset
       THEN UNCHANGED <<selUpdates, toggleParity, selFresh, selPrevSession>>
       ELSE /\ selUpdates' = Append(selUpdates,
                                [op |-> "toggle", ds |-> selDatasetId, ep |-> ep])
            /\ toggleParity' = IF parityKnown
                               THEN [toggleParity EXCEPT ![ep] = 1 - @]
                               ELSE toggleParity
            /\ selFresh' = FALSE
            /\ selPrevSession' = EmptyObj
    /\ UNCHANGED <<selOthers, selMounted, selDatasetId, selectedEpisodes,
                   selStorage, parityKnown>>

clearSelection ==
    /\ selMounted
    /\ SelRoom
    /\ IF selDatasetId = NoDataset
       THEN UNCHANGED <<selUpdates, toggleParity, parityKnown, selFresh,
                        selPrevSession>>
       ELSE /\ selUpdates' = Append(selUpdates, [op |-> "clear", ds |-> selDatasetId])
            /\ toggleParity' = ZeroParity
            /\ parityKnown' = TRUE
            /\ selFresh' = FALSE
            /\ selPrevSession' = EmptyObj
    /\ UNCHANGED <<selOthers, selMounted, selDatasetId, selectedEpisodes,
                   selStorage>>

selectAll(ids) ==
    /\ selMounted
    /\ SelRoom
    /\ IF selDatasetId = NoDataset
       THEN UNCHANGED <<selUpdates, toggleParity, parityKnown, selFresh,
                        selPrevSession>>
       ELSE /\ selUpdates' = Append(selUpdates,
                                [op |-> "all", ds |-> selDatasetId, ids |-> ids])
            /\ toggleParity' = ZeroParity
            /\ parityKnown' = (ids = <<>>)
            /\ selFresh' = FALSE
            /\ selPrevSession' = EmptyObj
    /\ UNCHANGED <<selOthers, selMounted, selDatasetId, selectedEpisodes,
                   selStorage>>

\* the component is removed: its state and its queued updates are gone
SelUnmount ==
    /\ selMounted
    /\ selMounted' = FALSE
    /\ selPrevSession' = selectedEpisodes
    /\ selFresh' = TRUE
    /\ selectedEpisodes' = EmptyObj
    /\ selUpdates' = <<>>
    /\ parityKnown' = FALSE
    /\ toggleParity' = ZeroParity
    /\ UNCHANGED <<selOthers, selDatasetId, selStorage>>

SelInit ==
    /\ selMounted = FALSE
    /\ selDatasetId = "A"
    /\ selectedEpisodes = EmptyObj
    /\ selUpdates = <<>>
    /\ selStorage = None
    /\ parityKnown = FALSE
    /\ toggleParity = ZeroParity
    /\ selFresh = TRUE
    /\ selPrevSession = EmptyObj

SelNext ==
    \/ SelMount
    \/ SelRender
    \/ SelSwitchDataset
    \/ \E ep \in Episodes : toggleEpisode(ep)
    \/ clearSelection
    \/ \E ids \in IdLists : selectAll(ids)
    \/ SelUnmount

----------------------------------------------------------------------------
\* useTaskManagement

\* String(n) of a non-negative integer: its decimal digits; the keys of a
\* Record<number, string> are these strings
RECURSIVE NumberToString(_)
NumberToString(n) == IF n < 10 THEN <<n>> ELSE NumberToString(n \div 10) \o <<n % 10>>

\* parseInt of a string of decimal digits
RECURSIVE parseInt(_)
parseInt(str) ==
    IF Len(str) = 1 THEN str[1]
    ELSE 10 * parseInt(SubSeq(str, 1, Len(str) - 1)) + str[Len(str)]

\* obj[n] for a number n
GetNum(obj, n) == IF Has(obj, NumberToString(n)) THEN obj[NumberToString(n)] ELSE Undefined

\* the updater of addTask
AddTaskUpdater(prev, task) == Append(prev, task)

\* the updaters of removeTask: on the task list ...
RemoveTaskListUpdater(prev, task) == FilterOut(prev, task)

\* ... and on the overrides: every key whose value is the task is deleted
RemoveTaskEpisodesUpdater_KeepsAll(prev, task) == prev

RemoveTaskEpisodesUpdater(prev, task) ==
    LET deleted == {NumberToString(parseInt(k)) : k \in
                      {key \in DOMAIN prev : GetNum(prev, parseInt(key)) = task}}
    IN  [k \in (DOMAIN prev) \ deleted |-> prev[k]]

\* the updaters of setEpisodeTask
SetEpisodeTaskUpdater(prev, episodeId, task) ==
    IF task = Undefined
    THEN Delete(prev, NumberToString(episodeId))
    ELSE Put(prev, NumberToString(episodeId), task)

\* the state updates of one call applied to the pair of states
ApplyTaskUpdate(st, u) ==
    CASE u.op = "load" ->
            [availableTasks |-> u.availableTasks, episodeTasks |-> u.episodeTasks]
      [] u.op = "add" ->
            [st EXCEPT !.availableTasks = AddTaskUpdater(@, u.task)]
      [] u.op = "remove" ->
            [availableTasks |-> RemoveTaskListUpdater(st.availableTasks, u.task),
             episodeTasks |-> RemoveTaskEpisodesUpdater(st.episodeTasks, u.task)]
      [] u.op = "setEpisode" ->
            [st EXCEPT !.episodeTasks = SetEpisodeTaskUpdater(@, u.episodeId, u.task)]

RECURSIVE ApplyTaskUpdates(_, _)
ApplyTaskUpdates(st, us) ==
    IF us = <<>> THEN st
    ELSE ApplyTaskUpdates(ApplyTaskUpdate(st, Head(us)), Tail(us))

TaskState == [availableTasks |-> availableTasks, episodeTasks |-> episodeTasks]
EmptyTaskState == [availableTasks |-> <<>>, episodeTasks |-> EmptyObj]

\* the load effect: data.availableTasks || [] and data.episodeTasks || {}
TaskLoadEffect(stored, updates) ==
    IF stored # None
    THEN LET data == JSONparse(stored[1])
         IN  Append(updates, [op |-> "load",
                              availableTasks |-> data.availableTasks,
                              episodeTasks |-> data.episodeTasks])
    ELSE updates

\* the save effect: writes the state of the render it belongs to
TaskSaveEffect(st) == Some(JSONstringify(st))

\* both effects, in declaration order, on the item of the current storage key
TaskEffects(stored, updates, st) ==
    [updates |-> TaskLoadEffect(stored, updates), stored |-> TaskSaveEffect(st)]

getEpisodeTask(episodeId) == GetNum(episodeTasks, episodeId)

getDefaultTask == IF availableTasks = <<>> THEN Undefined ELSE availableTasks[1]

TaskRoom == Len(taskUpdates) < MaxPending /\ taskCalls < MaxTaskCalls

\* the label of the removeTask call a render applied last, if that was the last call
LastRemoved(us) ==
    IF us # <<>> /\ us[Len(us)].op = "remove" THEN us[Len(us)].task ELSE NoLabel

TaskMount ==
    /\ ~taskMounted
    /\ LET first == TaskEffects(taskStorage[taskDatasetId], <<>>, EmptyTaskState)
           second == TaskEffects(first.stored, first.updates, EmptyTaskState)
           res == IF strictMode THEN second ELSE first
       IN  /\ taskUpdates' = res.updates
           /\ taskStorage' = [taskStorage EXCEPT ![taskDatasetId] = res.stored]
    /\ taskMounted' = TRUE
    /\ availableTasks' = <<>>
    /\ episodeTasks' = EmptyObj
    /\ taskFresh' = TRUE
    /\ lastRemoved' = NoLabel
    /\ UNCHANGED <<taskOthers, taskCalls, taskDatasetId, usedUnder, taskPrevSession>>

\* a render: the queued updates are applied in order; the state values are
\* new ones, so the save effect runs
TaskRender ==
    /\ taskMounted
    /\ taskUpdates # <<>>
    /\ LET st == ApplyTaskUpdates(TaskState, taskUpdates)
       IN  /\ availableTasks' = st.availableTasks
           /\ episodeTasks' = st.episodeTasks
           /\ taskStorage' = [taskStorage EXCEPT ![taskDatasetId] = TaskSaveEffect(st)]
    /\ taskUpdates' = <<>>
    /\ lastRemoved' = LastRemoved(taskUpdates)
    /\ UNCHANGED <<taskOthers, taskCalls, taskMounted, taskDatasetId, usedUnder, taskFresh,
                   taskPrevSession>>

\* the route parameters change: the same hook instance is rendered again with
\* another datasetId, so storageKey changes and both effects run
TaskSwitchDataset ==
    /\ taskMounted
    /\ \E ds \in Datasets \ {taskDatasetId} :
         LET st == ApplyTaskUpdates(TaskState, taskUpdates)
             res == TaskEffects(taskStorage[ds], <<>>, st)
         IN  /\ taskDatasetId' = ds
             /\ availableTasks' = st.availableTasks
             /\ episodeTasks' = st.episodeTasks
             /\ taskUpdates' = res.updates
             /\ taskStorage' = [taskStorage EXCEPT ![ds] = res.stored]
    /\ lastRemoved' = LastRemoved(taskUpdates)
    /\ taskFresh' = FALSE
    /\ taskPrevSession' = EmptyTaskState
    /\ UNCHANGED <<taskOthers, taskCalls, taskMounted, usedUnder>>

addTask(task) ==
    /\ taskMounted
    /\ TaskRoom
    /\ taskCalls' = taskCalls + 1
    /\ IF task # "" /\ ~Includes(availableTasks, task)
       THEN /\ taskUpdates' = Append(taskUpdates, [op |-> "add", task |-> task])
            /\ usedUnder' = [usedUnder EXCEPT ![taskDatasetId] = @ \cup {task}]
            /\ taskFresh' = FALSE
            /\ taskPrevSession' = EmptyTaskState
            /\ lastRemoved' = NoLabel
       ELSE UNCHANGED <<taskUpdates, usedUnder, taskFresh, taskPrevSession,
                        lastRemoved>>
    /\ UNCHANGED <<taskOthers, taskMounted, taskDatasetId, availableTasks,
                   episodeTasks, taskStorage>>

removeTask(task) ==
    /\ taskMounted
    /\ TaskRoom
    /\ taskCalls' = taskCalls + 1
    /\ taskUpdates' = Append(taskUpdates, [op |-> "remove", task |-> task])
    /\ taskFresh' = FALSE
    /\ taskPrevSession' = EmptyTaskState
    /\ lastRemoved' = NoLabel
    /\ UNCHANGED <<taskOthers, taskMounted, taskDatasetId, availableTasks,
                   episodeTasks, taskStorage, usedUnder>>

setEpisodeTask(episodeId, task) ==
    /\ taskMounted
    /\ TaskRoom
    /\ taskCalls' = taskCalls + 1
    /\ taskUpdates' = Append(taskUpdates,
                         [op |-> "setEpisode", episodeId |-> episodeId, task |-> task])
    /\ usedUnder' = IF task = Undefined THEN usedUnder
                    ELSE [usedUnder EXCEPT ![taskDatasetId] = @ \cup {task}]
    /\ taskFresh' = FALSE
    /\ taskPrevSession' = EmptyTaskState
    /\ lastRemoved' = NoLabel
    /\ UNCHANGED <<taskOthers, taskMounted, taskDatasetId, availableTasks,
                   episodeTasks, taskStorage>>

TaskUnmount ==
    /\ taskMounted
    /\ taskMounted' = FALSE
    /\ taskPrevSession' = TaskState
    /\ taskFresh' = TRUE
    /\ availableTasks' = <<>>
    /\ episodeTasks' = EmptyObj
    /\ taskUpdates' = <<>>
    /\ lastRemoved' = NoLabel
    /\ UNCHANGED <<taskOthers, taskCalls, taskDatasetId, taskStorage, usedUnder>>

TaskInit ==
    /\ taskMounted = FALSE
    /\ taskDatasetId = "A"
    /\ availableTasks = <<>>
    /\ episodeTasks = EmptyObj
    /\ taskUpdates = <<>>
    /\ taskStorage = [ds \in Datasets |-> None]
    /\ taskCalls = 0
    /\ usedUnder = [ds \in Datasets |-> {}]
    /\ lastRemoved = NoLabel
    /\ taskFresh = TRUE
    /\ taskPrevSession = EmptyTaskState

TaskNext ==
    \/ TaskMount
    \/ TaskRender
    \/ TaskSwitchDataset
    \/ \E task \in Labels \cup {""} : addTask(task)
    \/ \E task \in Labels : removeTask(task)
    \/ \E ep \in Episodes, task \in Labels \cup {Undefined} : setEpisodeTask(ep, task)
    \/ TaskUnmount

----------------------------------------------------------------------------
\* createDatasetRequest

\* if (task): undefined and the empty string are falsy
Truthy(task) == task # Undefined /\ task # ""

\* the forEach over selectedEpisodes that fills episodeTasks
RECURSIVE CollectEpisodeTasks(_, _, _)
CollectEpisodeTasks(acc, selected, getTask) ==
    IF selected = <<>> THEN acc
    ELSE LET ep == Head(selected)
             task == getTask[ep]
         IN  CollectEpisodeTasks(
                 IF Truthy(task) THEN Put(acc, NumberToString(ep), task) ELSE acc,
                 Tail(selected), getTask)

\* hasCustomEpisodeTasks ? episodeTasks : undefined
TaskMapField_Always(collected) == Some(collected)

TaskMapField(collected) ==
    IF Cardinality(DOMAIN collected) > 0 THEN Some(collected) ELSE None

\* the assignments collected for the payload
PayloadEpisodeTasks_AllEpisodes(selected, getTask) ==
    CollectEpisodeTasks(EmptyObj, Descending(MaxEpisode), getTask)

PayloadEpisodeTasks(selected, getTask) ==
    CollectEpisodeTasks(EmptyObj, selected, getTask)

createDatasetRequest_NoSelectionCheck(in) ==
    IF \/ in.datasetId = ""
       \/ in.newRepoId = ""
    THEN [threw |-> TRUE]
    ELSE [threw |-> FALSE,
          original_repo_id |-> in.datasetId,
          new_repo_id |-> in.newRepoId,
          selected_episodes |-> in.selectedEpisodes,
          episode_index_task_map |->
              TaskMapField(PayloadEpisodeTasks(in.selectedEpisodes, in.getEpisodeTask))]

createDatasetRequest(in) ==
    IF \/ in.datasetId = ""
       \/ in.newRepoId = ""
       \/ Len(in.selectedEpisodes) = 0
    THEN [threw |-> TRUE]
    ELSE [threw |-> FALSE,
          original_repo_id |-> in.datasetId,
          new_repo_id |-> in.newRepoId,
          selected_episodes |-> in.selectedEpisodes,
          episode_index_task_map |->
              TaskMapField(PayloadEpisodeTasks(in.selectedEpisodes, in.getEpisodeTask))]

\* sequences over S of length at most n
RECURSIVE SeqsUpTo(_, _)
SeqsUpTo(S, n) ==
    IF n = 0 THEN {<<>>}
    ELSE LET shorter == SeqsUpTo(S, n - 1)
         IN  shorter \cup {Append(q, x) : q \in shorter, x \in S}

RepoIds == {"", "ns/data", "ns/new"}

ReqInputs ==
    [datasetId : RepoIds,
     newRepoId : RepoIds,
     selectedEpisodes : SeqsUpTo(Episodes, MaxSelected),
     getEpisodeTask : [Episodes -> Labels \cup {"", Undefined}]]

ReqIdle ==
    /\ reqInput = [datasetId |-> "", newRepoId |-> "", selectedEpisodes |-> <<>>,
                   getEpisodeTask |-> [e \in Episodes |-> Undefined]]
    /\ reqOutput = None

ReqInit ==
    /\ reqInput \in ReqInputs
    /\ reqOutput = None

CallCreateDatasetRequest ==
    /\ reqOutput = None
    /\ reqOutput' = Some(createDatasetRequest(reqInput))
    /\ UNCHANGED <<reqOthers, reqInput>>

ReqNext == CallCreateDatasetRequest

----------------------------------------------------------------------------
\* DatasetViewer: dataset creation and the polling of its status

Jobs == 1..MaxJobs
JobStatuses == {"pending", "running", "completed", "failed"}
RequestKinds == Jobs \X JobStatuses

\* the server moves a task from pending to running to completed or failed
Follows(later, earlier) ==
    \/ later = earlier
    \/ earlier = "pending"
    \/ earlier = "running" /\ later \in {"completed", "failed"}

\* a request is answered at some moment between its sending and the arrival
\* of the response, with the status the task has at that moment
\* CreateTaskStatus.message: the server gives one with the failed status,
\* or none
FailureMessages == {Undefined, "push to hub failed"}

\* the message of a response with the status a
ServerMessage(task, a) ==
    IF a = "failed" THEN jobState[task].message ELSE Undefined

PossibleAnswers(task, atSend) ==
    {a \in JobStatuses : Follows(a, atSend) /\ Follows(jobState[task].status, a)}

\* the episode the viewer opened: useState(episodeId ? parseInt(episodeId) : 0)
currentEpisodeId == 0

\* what the user types into the new_repo_id field: the id of the dataset
\* being viewed or another id ("" is the empty field)
FormValues == {"A", "C"}

NullStatus == [task |-> 0, status |-> "null", message |-> Undefined]

NoPending == [taskId |-> None, status |-> None, showModal |-> None,
              createModal |-> None, episodeData |-> None]

\* a queued update applied to the committed value
Committed(update, current) == IF update = None THEN current ELSE update[1]

RECURSIVE SumOver(_, _)
SumOver(f, S) ==
    IF S = {} THEN 0
    ELSE LET x == CHOOSE y \in S : TRUE IN f[x] + SumOver(f, S \ {x})

InFlightCount == SumOver(inflight, RequestKinds)
NoRequests == [k \in RequestKinds |-> 0]

\* pollStatus, after the response: setCreationStatus(status), then the
\* state updates of the completed and failed branches
PollStatusThen_FailedGoesOn(pend, status) ==
    LET shown == [pend EXCEPT !.status = Some(status)]
    IN  IF status.status = "completed"
        THEN [shown EXCEPT !.taskId = Some(0), !.createModal = Some(FALSE)]
        ELSE shown

PollStatusThen(pend, status) ==
    LET shown == [pend EXCEPT !.status = Some(status)]
    IN  IF status.status = "completed"
        THEN [shown EXCEPT !.taskId = Some(0), !.createModal = Some(FALSE)]
        ELSE IF status.status = "failed"
        THEN [shown EXCEPT !.taskId = Some(0)]
        ELSE shown

\* the status prop the viewer hands to DatasetCompletionModal
StatusProp(status) ==
    IF status = NullStatus THEN None
    ELSE Some([status |-> status.status, message |-> status.message])

\* DatasetCompletionModal: the Tag with the status, and the Paragraph with
\* the message when there is one
ModalShows(prop) ==
    IF prop = None THEN [tag |-> None, paragraph |-> None]
    ELSE [tag |-> Some(prop[1].status),
          paragraph |-> IF Truthy(prop[1].message) THEN Some(prop[1].message)
                        ELSE None]

\* pollStatus, the catch block: the error is logged
PollStatusCatch_Stops(pend) == [pend EXCEPT !.taskId = Some(0)]

PollStatusCatch(pend) == pend

\* clearSelection is a plain function of useSelectedEpisodes (no useCallback):
\* every render of the viewer gets a new one
ClearSelectionChanged == TRUE

\* the polling effect has the dependencies [creationTaskId, form,
\* clearSelection]: a render runs its cleanup and runs it again when one differs
PollEffectRuns(previousTaskId, taskId) ==
    previousTaskId # taskId \/ ClearSelectionChanged

\* the polling effect: it returns at once without a task id, else it starts
\* the interval and calls pollStatus
EffectPolls(taskId) == taskId # 0

\* clearSelection called by the viewer: its updater is queued. The updaters
\* queued before it for the same dataset only write that dataset's list, which
\* the clear replaces by the empty list, so the queue is kept without them
QueueClear(queue, ds) ==
    SelectSeq(queue, LAMBDA u : u.ds # ds) \o <<[op |-> "clear", ds |-> ds]>>

Sent(task) == [inflight EXCEPT ![<<task, jobState[task].status>>] = @ + 1]

ViewerMount ==
    /\ ~viewerMounted
    /\ viewerMounted' = TRUE
    /\ LET first == SelMountEffects(selStorage, <<>>, EmptyObj)
           second == SelMountEffects(first.stored, first.updates, EmptyObj)
           res == IF strictMode THEN second ELSE first
       IN  /\ selUpdates' = res.updates
           /\ selStorage' = res.stored
    /\ selMounted' = TRUE
    /\ selectedEpisodes' = EmptyObj
    /\ episodeData' = FALSE
    /\ isCreateModalVisible' = FALSE
    /\ showStatusModal' = FALSE
    /\ creationTaskId' = 0
    /\ creationStatus' = NullStatus
    /\ viewPending' = NoPending
    /\ formValue' = ""
    /\ intervalTask' = 0
    /\ UNCHANGED <<pollOthers, createInFlight, inflight, jobState, polledTerminal,
                   closedJobs, errorsSeen>>

\* a render of the viewer: the queued updates of its state and of the
\* selection store are applied, the save effect runs if the selection state
\* is a new object, and the polling effect is cleaned up and run again
ViewerRender ==
    /\ viewerMounted
    /\ viewPending # NoPending \/ selUpdates # <<>>
    /\ episodeData' = Committed(viewPending.episodeData, episodeData)
    /\ isCreateModalVisible' = Committed(viewPending.createModal, isCreateModalVisible)
    /\ showStatusModal' = Committed(viewPending.showModal, showStatusModal)
    /\ creationTaskId' = Committed(viewPending.taskId, creationTaskId)
    /\ creationStatus' = Committed(viewPending.status, creationStatus)
    /\ viewPending' = NoPending
    /\ selectedEpisodes' = ApplySelUpdates(selectedEpisodes, selUpdates)
    /\ selUpdates' = <<>>
    /\ selStorage' = IF selUpdates # <<>> THEN SelSaveEffect(selectedEpisodes')
                     ELSE selStorage
    /\ IF PollEffectRuns(creationTaskId, creationTaskId')
       THEN /\ intervalTask' = creationTaskId'
            /\ IF EffectPolls(creationTaskId')
               THEN /\ InFlightCount < MaxInFlight
                    /\ inflight' = Sent(creationTaskId')
               ELSE UNCHANGED inflight
       ELSE UNCHANGED <<intervalTask, inflight>>
    /\ UNCHANGED <<pollOthers, selMounted, viewerMounted, formValue, createInFlight,
                   jobState, polledTerminal, closedJobs, errorsSeen>>

\* the interval of the live effect fires: pollStatus of that effect's closure
TimerTick ==
    /\ viewerMounted
    /\ intervalTask # 0
    /\ InFlightCount < MaxInFlight
    /\ inflight' = Sent(intervalTask)
    /\ UNCHANGED <<pollOthers, selMounted, selectedEpisodes, selUpdates, selStorage,
                   viewerMounted, episodeData, isCreateModalVisible, showStatusModal,
                   creationTaskId, creationStatus, viewPending, formValue,
                   intervalTask, createInFlight, jobState, polledTerminal, closedJobs,
                   errorsSeen>>

\* the server works on a task
ServerStep ==
    /\ \E task \in Jobs :
         \/ /\ jobState[task].status = "pending"
            /\ jobState' = [jobState EXCEPT ![task].status = "running"]
         \/ /\ jobState[task].status = "running"
            /\ jobState' = [jobState EXCEPT ![task].status = "completed"]
         \/ /\ jobState[task].status = "running"
            /\ \E message \in FailureMessages :
                 jobState' = [jobState EXCEPT ![task] =
                                 [status |-> "failed", message |-> message]]
    /\ UNCHANGED <<pollOthers, selMounted, selectedEpisodes, selUpdates, selStorage,
                   viewerMounted, episodeData, isCreateModalVisible, showStatusModal,
                   creationTaskId, creationStatus, viewPending, formValue,
                   intervalTask, createInFlight, inflight, polledTerminal, closedJobs,
                   errorsSeen>>

\* the await of pollStatus returns a status: the try block runs to its end
StatusArrives ==
    /\ viewerMounted
    /\ \E task \in Jobs, atSend \in JobStatuses :
         /\ inflight[<<task, atSend>>] > 0
         /\ inflight' = [inflight EXCEPT ![<<task, atSend>>] = @ - 1]
         /\ \E answer \in PossibleAnswers(task, atSend) :
              /\ viewPending' = PollStatusThen(viewPending,
                                               [task |-> task, status |-> answer,
                                                message |-> ServerMessage(task, answer)])
              /\ IF answer = "completed"
                 THEN /\ formValue' = ""
                      /\ selUpdates' = QueueClear(selUpdates, selDatasetId)
                 ELSE UNCHANGED <<formValue, selUpdates>>
              /\ polledTerminal' = IF answer \in {"completed", "failed"}
                                   THEN polledTerminal \cup {task}
                                   ELSE polledTerminal
    /\ UNCHANGED <<pollOthers, selMounted, selectedEpisodes, selStorage,
                   viewerMounted, episodeData, isCreateModalVisible, showStatusModal,
                   creationTaskId, creationStatus, intervalTask, createInFlight,
                   jobState, closedJobs, errorsSeen>>

\* the request fails (network or HTTP error) and the await of pollStatus
\* throws: the catch block runs
ErrorArrives ==
    /\ viewerMounted
    /\ errorsSeen < MaxErrors
    /\ \E task \in Jobs, atSend \in JobStatuses :
         /\ inflight[<<task, atSend>>] > 0
         /\ inflight' = [inflight EXCEPT ![<<task, atSend>>] = @ - 1]
    /\ viewPending' = PollStatusCatch(viewPending)
    /\ errorsSeen' = errorsSeen + 1
    /\ UNCHANGED <<pollOthers, selMounted, selectedEpisodes, selUpdates, selStorage,
                   viewerMounted, episodeData, isCreateModalVisible, showStatusModal,
                   creationTaskId, creationStatus, formValue, intervalTask,
                   createInFlight, jobState, polledTerminal, closedJobs>>

\* groups of viewer variables an action leaves alone
viewCommitted == <<viewerMounted, episodeData, isCreateModalVisible,
                   showStatusModal, creationTaskId, creationStatus>>
viewSelection == <<selMounted, selectedEpisodes, selStorage>>
viewNetwork == <<inflight, jobState>>
viewHistory == <<polledTerminal, closedJobs, errorsSeen>>

\* the episode query delivers its data
EpisodeLoaded ==
    /\ viewerMounted
    /\ ~episodeData
    /\ viewPending.episodeData = None
    /\ viewPending' = [viewPending EXCEPT !.episodeData = Some(TRUE)]
    /\ UNCHANGED <<pollOthers, viewCommitted, viewSelection, viewNetwork, viewHistory,
                   selUpdates, formValue, intervalTask, createInFlight>>

\* Cmd/Ctrl+K, or the checkbox of the current episode
ViewerToggleEpisode ==
    /\ viewerMounted
    /\ SelRoom
    /\ selUpdates' = Append(selUpdates, [op |-> "toggle", ds |-> selDatasetId,
                                          ep |-> currentEpisodeId])
    /\ UNCHANGED <<pollOthers, viewCommitted, viewSelection, viewNetwork, viewHistory,
                   viewPending, formValue, intervalTask, createInFlight>>

\* the header button, rendered while selectedCount > 0
OpenCreateModal ==
    /\ viewerMounted
    /\ selectedCount > 0
    /\ ~isCreateModalVisible
    /\ viewPending' = [viewPending EXCEPT !.createModal = Some(TRUE)]
    /\ UNCHANGED <<pollOthers, viewCommitted, viewSelection, viewNetwork, viewHistory,
                   selUpdates, formValue, intervalTask, createInFlight>>

\* Cancel, or closing the create modal
CancelCreateModal ==
    /\ viewerMounted
    /\ isCreateModalVisible
    /\ viewPending' = [viewPending EXCEPT !.createModal = Some(FALSE)]
    /\ UNCHANGED <<pollOthers, viewCommitted, viewSelection, viewNetwork, viewHistory,
                   selUpdates, formValue, intervalTask, createInFlight>>

\* typing a repository id into the form
TypeRepoId ==
    /\ viewerMounted
    /\ isCreateModalVisible
    /\ \E v \in FormValues \ {formValue} : formValue' = v
    /\ UNCHANGED <<pollOthers, viewCommitted, viewSelection, viewNetwork, viewHistory,
                   selUpdates, viewPending, intervalTask, createInFlight>>

\* submitting the form (its rules passed, no mutation pending): handleCreateDataset
SubmitCreate ==
    /\ viewerMounted
    /\ isCreateModalVisible
    /\ formValue # ""
    /\ createInFlight = None
    /\ IF ~episodeData \/ Len(getSelectedForDataset) = 0
       THEN UNCHANGED createInFlight
       ELSE LET payload == createDatasetRequest(
                    [datasetId |-> selDatasetId,
                     newRepoId |-> formValue,
                     selectedEpisodes |-> getSelectedForDataset,
                     getEpisodeTask |-> [e \in Episodes |-> getEpisodeTask(e)]])
            IN  IF payload.threw THEN UNCHANGED createInFlight
                ELSE createInFlight' = Some(payload)
    /\ UNCHANGED <<pollOthers, viewCommitted, viewSelection, viewNetwork, viewHistory,
                   selUpdates, viewPending, formValue, intervalTask>>

\* the create request is answered with a task id: onSuccess, first branch
CreateStarted ==
    /\ viewerMounted
    /\ createInFlight # None
    /\ \E task \in Jobs :
         /\ jobState[task].status = "none"
         /\ \A earlier \in 1..(task - 1) : jobState[earlier].status # "none"
         /\ jobState' = [jobState EXCEPT ![task].status = "pending"]
         /\ viewPending' = [viewPending EXCEPT !.taskId = Some(task),
                                               !.showModal = Some(TRUE)]
    /\ createInFlight' = None
    /\ UNCHANGED <<pollOthers, viewCommitted, viewSelection, viewHistory, inflight,
                   selUpdates, formValue, intervalTask>>

\* the create request is answered without a task id: onSuccess, second branch
CreateDone ==
    /\ viewerMounted
    /\ createInFlight # None
    /\ createInFlight' = None
    /\ viewPending' = [viewPending EXCEPT !.createModal = Some(FALSE)]
    /\ formValue' = ""
    /\ selUpdates' = QueueClear(selUpdates, selDatasetId)
    /\ UNCHANGED <<pollOthers, viewCommitted, viewSelection, viewNetwork, viewHistory,
                   intervalTask>>

\* the create request fails: onError shows a message
CreateFails ==
    /\ viewerMounted
    /\ createInFlight # None
    /\ createInFlight' = None
    /\ UNCHANGED <<pollOthers, viewCommitted, viewSelection, viewNetwork, viewHistory,
                   selUpdates, viewPending, formValue, intervalTask>>

\* onClose of the status modal (Close, the X, or 'View New Dataset')
CloseStatusModal ==
    /\ viewerMounted
    /\ showStatusModal
    /\ viewPending' = [viewPending EXCEPT !.showModal = Some(FALSE),
                                          !.status = Some(NullStatus)]
    /\ closedJobs' = closedJobs \cup ({creationStatus.task, creationTaskId} \ {0})
    /\ UNCHANGED <<pollOthers, viewCommitted, viewSelection, viewNetwork,
                   polledTerminal, errorsSeen, selUpdates, formValue, intervalTask,
                   createInFlight>>

\* the viewer is removed: the effect cleanup clears the interval; the state
\* setters of the removed instance do nothing any more, so the responses
\* still under way are dropped here
ViewerUnmount ==
    /\ viewerMounted
    /\ viewerMounted' = FALSE
    /\ selMounted' = FALSE
    /\ selectedEpisodes' = EmptyObj
    /\ selUpdates' = <<>>
    /\ episodeData' = FALSE
    /\ isCreateModalVisible' = FALSE
    /\ showStatusModal' = FALSE
    /\ creationTaskId' = 0
    /\ creationStatus' = NullStatus
    /\ viewPending' = NoPending
    /\ formValue' = ""
    /\ intervalTask' = 0
    /\ createInFlight' = None
    /\ inflight' = NoRequests
    /\ UNCHANGED <<pollOthers, selStorage, jobState, viewHistory>>

PollIdle ==
    /\ viewerMounted = FALSE
    /\ episodeData = FALSE
    /\ isCreateModalVisible = FALSE
    /\ showStatusModal = FALSE
    /\ creationTaskId = 0
    /\ creationStatus = NullStatus
    /\ viewPending = NoPending
    /\ formValue = ""
    /\ intervalTask = 0
    /\ createInFlight = None
    /\ inflight = NoRequests
    /\ jobState = [task \in Jobs |-> [status |-> "none", message |-> Undefined]]
    /\ polledTerminal = {}
    /\ closedJobs = {}
    /\ errorsSeen = 0

PollNext ==
    \/ ViewerMount
    \/ ViewerRender
    \/ TimerTick
    \/ ServerStep
    \/ StatusArrives
    \/ ErrorArrives
    \/ EpisodeLoaded
    \/ ViewerToggleEpisode
    \/ OpenCreateModal
    \/ CancelCreateModal
    \/ TypeRepoId
    \/ SubmitCreate
    \/ CreateStarted
    \/ CreateDone
    \/ CreateFails
    \/ CloseStatusModal
    \/ ViewerUnmount

----------------------------------------------------------------------------
\* datasetApi.waitForDataset: polling until the dataset is loaded

maxRetries == 300

\* DatasetLoadingStatus: its status and its optional message
LoadingStatuses == {"loading", "not_loaded", "ready", "error"}
LoadingMessages == {Undefined, "", "out of memory"}
LoadingResponses == [status : LoadingStatuses, message : LoadingMessages]
NoResponse == [status |-> "none", message |-> Undefined]

\* the Error of a request that failed (thrown by the await of getDatasetStatus)
RequestError == "Network Error"

\* status.message || 'Dataset loading failed'
FailureMessage(status) ==
    IF Truthy(status.message) THEN status.message ELSE "Dataset loading failed"

\* the body of the loop after onProgress: return, throw, or go on to the sleep
WaitDecide_ErrorGoesOn(status) ==
    IF status.status = "ready" THEN [pc |-> "resolved", error |-> ""]
    ELSE [pc |-> "sleep", error |-> ""]

WaitDecide(status) ==
    IF status.status = "ready" THEN [pc |-> "resolved", error |-> ""]
    ELSE IF status.status = "error"
    THEN [pc |-> "rejected", error |-> FailureMessage(status)]
    ELSE [pc |-> "sleep", error |-> ""]

\* the await of getDatasetStatus returns a response
WaitResponse ==
    /\ waitPc = "request"
    /\ \E status \in LoadingResponses :
         /\ waitLast' = status
         /\ waitPc' = WaitDecide(status).pc
         /\ waitError' = WaitDecide(status).error
    /\ waitResponses' = waitResponses + 1
    /\ waitProgressCalls' = IF waitOnProgress THEN waitProgressCalls + 1
                            ELSE waitProgressCalls
    /\ UNCHANGED <<waitOthers, retries, waitOnProgress, waitRequests, waitFailures>>

\* the request fails: the await throws inside the loop, which has no try
WaitRequestFails ==
    /\ waitPc = "request"
    /\ waitPc' = "rejected"
    /\ waitError' = RequestError
    /\ waitFailures' = waitFailures + 1
    /\ UNCHANGED <<waitOthers, retries, waitOnProgress, waitLast, waitRequests,
                   waitResponses, waitProgressCalls>>

\* the setTimeout of pollInterval fires: retries++, then the loop test and
\* either the next request or the throw after the loop
WaitTimerFires ==
    /\ waitPc = "sleep"
    /\ retries' = retries + 1
    /\ IF retries' < maxRetries
       THEN /\ waitPc' = "request"
            /\ waitRequests' = waitRequests + 1
            /\ UNCHANGED waitError
       ELSE /\ waitPc' = "rejected"
            /\ waitError' = "Dataset loading timeout"
            /\ UNCHANGED waitRequests
    /\ UNCHANGED <<waitOthers, waitOnProgress, waitLast, waitResponses,
                   waitProgressCalls, waitFailures>>

\* waitForDataset is not called
WaitIdle ==
    /\ waitPc = "idle"
    /\ retries = 0
    /\ waitOnProgress = FALSE
    /\ waitError = ""
    /\ waitLast = NoResponse
    /\ waitRequests = 0
    /\ waitResponses = 0
    /\ waitProgressCalls = 0
    /\ waitFailures = 0

\* waitForDataset(namespace, name, onProgress?) was called: 0 < maxRetries, so
\* the first request is under way
WaitCalled ==
    /\ waitPc = "request"
    /\ retries = 0
    /\ waitOnProgress \in BOOLEAN
    /\ waitError = ""
    /\ waitLast = NoResponse
    /\ waitRequests = 1
    /\ waitResponses = 0
    /\ waitProgressCalls = 0
    /\ waitFailures = 0

WaitNext ==
    \/ WaitResponse
    \/ WaitRequestFails
    \/ WaitTimerFires

----------------------------------------------------------------------------
\* useVideoPreloader: video elements of the episodes around the current one

\* the episode ids the viewer can be on, and the arguments of the hook
PreIds == 0..(MaxTotal - 1)
\* totalEpisodes: 0 without episode data, else the size of the dataset
PreTotals == {0, MaxTotal - 1, MaxTotal}
PreCounts == 0..MaxWindow

\* preloadCount: number = 2
DefaultPreloadCount == 2

\* getVideoUrl: (episodeId) => string | undefined. The resolvers given: the
\* viewer's without episode data (no URL), the viewer's with episode data (a
\* URL for every id), and one that has URLs for the episodes below 2 only;
\* None is undefined
VideoUrl(id) == <<"episode", id>>
NoUrls == [id \in PreIds |-> None]
AllUrls == [id \in PreIds |-> VideoUrl(id)]
SomeUrls == [id \in PreIds |-> IF id < 2 THEN VideoUrl(id) ELSE None]
Resolvers == {NoUrls, AllUrls, SomeUrls}

\* document.createElement('video') with src, preload and muted set, loading
VideoElement(url) == [src |-> url, preload |-> "auto", muted |-> TRUE]

\* preloadVideo(episodeId)
preloadVideo_Never(map, id, urls) == map

preloadVideo(map, id, urls) ==
    IF id \in DOMAIN map THEN map
    ELSE IF urls[id] = None THEN map
    ELSE [k \in DOMAIN map \cup {id} |->
             IF k = id THEN VideoElement(urls[id]) ELSE map[k]]

\* the first loop up to i: the previous episodes preloaded and noted
RECURSIVE PreloadPrevious(_, _, _, _)
PreloadPrevious(st, i, c, urls) ==
    IF i = 0 THEN st
    ELSE LET before == PreloadPrevious(st, i - 1, c, urls)
             prevId == c - i
         IN  IF prevId >= 0
             THEN [map |-> preloadVideo(before.map, prevId, urls),
                   currentPreloaded |-> before.currentPreloaded \cup {prevId}]
             ELSE before

\* the second loop up to i: the next episodes preloaded and noted
RECURSIVE PreloadNext(_, _, _, _, _)
PreloadNext(st, i, c, total, urls) ==
    IF i = 0 THEN st
    ELSE LET before == PreloadNext(st, i - 1, c, total, urls)
             nextId == c + i
         IN  IF nextId < total
             THEN [map |-> preloadVideo(before.map, nextId, urls),
                   currentPreloaded |-> before.currentPreloaded \cup {nextId}]
             ELSE before

\* the ids the forEach removes: not noted and not the current episode
Unneeded_KeepsBelow(map, currentPreloaded, c) ==
    {id \in DOMAIN map : id \notin currentPreloaded /\ id > c}

Unneeded(map, currentPreloaded, c) ==
    {id \in DOMAIN map : id \notin currentPreloaded /\ id # c}

\* video.src = ''; video.load(); preloadedVideos.current.delete(episodeId)
Release_NoDelete(map, ids) ==
    [k \in DOMAIN map |-> IF k \in ids THEN [map[k] EXCEPT !.src = None] ELSE map[k]]

Release(map, ids) == [k \in DOMAIN map \ ids |-> map[k]]

\* one run of the effect
PreloaderEffect(map, c, total, urls, count) ==
    LET start == [map |-> map, currentPreloaded |-> {}]
        loops == PreloadNext(PreloadPrevious(start, count, c, urls),
                             count, c, total, urls)
        gone == Unneeded(loops.map, loops.currentPreloaded, c)
    IN  [map |-> Release(loops.map, gone), released |-> gone]

\* the hook is mounted: the ref starts with an empty Map and the effect runs
PreMount ==
    /\ ~preMounted
    /\ preMounted' = TRUE
    /\ \E c \in PreIds, total \in PreTotals, urls \in Resolvers, count \in PreCounts :
         /\ preCurrent' = c
         /\ preTotal' = total
         /\ preUrls' = urls
         /\ preCount' = count
         /\ LET run == PreloaderEffect(<<>>, c, total, urls, count)
            IN  /\ preloadedVideos' = run.map
                /\ preReleased' = run.released
    /\ UNCHANGED preOthers

\* a render with another current episode, total, resolver or preloadCount:
\* the effect runs again
PreRender ==
    /\ preMounted
    /\ \E c \in PreIds, total \in PreTotals, urls \in Resolvers, count \in PreCounts :
         /\ <<c, total, urls, count>> # <<preCurrent, preTotal, preUrls, preCount>>
         /\ preCurrent' = c
         /\ preTotal' = total
         /\ preUrls' = urls
         /\ preCount' = count
         /\ LET run == PreloaderEffect(preloadedVideos, c, total, urls, count)
            IN  /\ preloadedVideos' = run.map
                /\ preReleased' = run.released
    /\ UNCHANGED <<preOthers, preMounted>>

\* the cleanup on unmount: every element is released and the Map cleared
PreUnmount ==
    /\ preMounted
    /\ preMounted' = FALSE
    /\ preReleased' = DOMAIN preloadedVideos
    /\ preloadedVideos' = <<>>
    /\ UNCHANGED <<preOthers, preCurrent, preTotal, preCount, preUrls>>

PreIdle ==
    /\ preMounted = FALSE
    /\ preCurrent = 0
    /\ preTotal = 0
    /\ preCount = DefaultPreloadCount
    /\ preUrls = NoUrls
    /\ preloadedVideos = <<>>
    /\ preReleased = {}

PreNext ==
    \/ PreMount
    \/ PreRender
    \/ PreUnmount

----------------------------------------------------------------------------
\* MergeDatasets: the merge page and its hook useSelectedDatasets

\* repository ids the hub knows, and what a manual entry holds besides them
\* once it is split at commas and newlines and trimmed
MergeRepoIds == {"u/a", "u/b", "v/a"}
ManualEntries == MergeRepoIds \cup {"", "nons"}
IncludesSlash(id) == id \in MergeRepoIds

\* the answers of /user/whoami: username is a string or null
Null == "null"
Users == {[username |-> Null], [username |-> "u"]}
HasUsername(user) ==
    /\ user # None
    /\ user[1].username # Null
    /\ user[1].username # ""

\* values of the form's fields that pass their rules
DatasetNames == {"a", "c"}
OutputRepoIds == {"u/a", "w/c"}
\* the values onFinish passes: those of the field the form shows
MergeFormValues(user) ==
    IF HasUsername(user) THEN {[dataset_name |-> v] : v \in DatasetNames}
                         ELSE {[new_repo_id |-> v] : v \in OutputRepoIds}

DatasetEntry(id, status) == [id |-> id, status |-> status]

NoValidating == [id \in MergeRepoIds |-> 0]
ValidatingCount == SumOver(validating, MergeRepoIds)

\* sequences over S of length at most n that hold no element twice
DistinctSeqs(S, n) ==
    {q \in SeqsUpTo(S, n) : \A i, j \in 1..Len(q) : q[i] = q[j] => i = j}

\* the repoIds of handleSearch: empty entries and entries without '/' are dropped
ManualRepoIds(entries) ==
    SelectSeq(entries, LAMBDA id : id # "" /\ IncludesSlash(id))

validDatasetIds(ds) == {ds[i].id : i \in {j \in 1..Len(ds) : ds[j].status = "valid"}}

selectedValidDatasets(ds, selected) ==
    SelectSeq(ds, LAMBDA d : d.status = "valid" /\ d.id \in selected)

selectedValidCount == Len(selectedValidDatasets(datasets, selectedDatasets))

isAllValidSelected ==
    /\ validDatasetIds(datasets) # {}
    /\ validDatasetIds(datasets) \subseteq selectedDatasets

\* setDatasets(prev => prev.map(d => d.id === repoId ? {...d, status} : d))
SetStatus(ds, repoId, status) ==
    [i \in 1..Len(ds) |-> IF ds[i].id = repoId THEN DatasetEntry(repoId, status)
                          ELSE ds[i]]

\* handleMerge: the request it passes to mergeMutation.mutate, None when it
\* reports an error instead
handleMerge(values, ds, selected, user) ==
    LET chosen == selectedValidDatasets(ds, selected)
    IN  IF Len(chosen) < 2 THEN None
        ELSE Some([dataset_ids |-> [i \in 1..Len(chosen) |-> chosen[i].id],
                   new_repo_id |-> IF HasUsername(user)
                                   THEN user[1].username \o "/" \o values.dataset_name
                                   ELSE values.new_repo_id,
                   tolerance_s |-> "1e-4"])

\* the page is mounted: the selection of the last visit is loaded and saved again
MergeMount ==
    /\ ~mergeMounted
    /\ mergeMounted' = TRUE
    /\ datasets' = <<>>
    /\ selectedDatasets' = mergeStorage
    /\ UNCHANGED <<mergeOthers, currentUser, mergeStorage, validating, mergeSent>>

\* the currentUser query gets its data
UserLoaded ==
    /\ mergeMounted
    /\ currentUser = None
    /\ \E user \in Users : currentUser' = Some(user)
    /\ UNCHANGED <<mergeOthers, mergeMounted, datasets, selectedDatasets, mergeStorage,
                   validating, mergeSent>>

\* onSuccess of searchMutation and of userDatasetsMutation: the selection is
\* cleared and the list replaced by the ids found, each of them valid
ListArrives ==
    /\ mergeMounted
    /\ \E ids \in DistinctSeqs(MergeRepoIds, MaxDatasets) :
         datasets' = [i \in 1..Len(ids) |-> DatasetEntry(ids[i], "valid")]
    /\ selectedDatasets' = {}
    /\ mergeStorage' = {}
    /\ UNCHANGED <<mergeOthers, mergeMounted, currentUser, validating, mergeSent>>

\* handleSearch with the manual method: the selection is cleared, the entries
\* are listed as validating and one validate request is sent for each
ManualSearch ==
    /\ mergeMounted
    /\ \E entries \in SeqsUpTo(ManualEntries, MaxDatasets) :
         /\ Len(entries) > 0
         /\ LET repoIds == ManualRepoIds(entries)
            IN  /\ ValidatingCount + Len(repoIds) <= MaxDatasets
                /\ IF Len(repoIds) = 0
                   THEN UNCHANGED <<datasets, validating>>
                   ELSE /\ datasets' = [i \in 1..Len(repoIds) |->
                                            DatasetEntry(repoIds[i], "validating")]
                        /\ validating' =
                               [id \in MergeRepoIds |->
                                   validating[id]
                                   + Len(SelectSeq(repoIds, LAMBDA r : r = id))]
    /\ selectedDatasets' = {}
    /\ mergeStorage' = {}
    /\ UNCHANGED <<mergeOthers, mergeMounted, currentUser, mergeSent>>

\* onSuccess of validateMutation
ValidateArrives ==
    /\ mergeMounted
    /\ \E repoId \in MergeRepoIds, exists \in BOOLEAN :
         /\ validating[repoId] > 0
         /\ validating' = [validating EXCEPT ![repoId] = @ - 1]
         /\ datasets' = SetStatus(datasets, repoId,
                                  IF exists THEN "valid" ELSE "invalid")
    /\ UNCHANGED <<mergeOthers, mergeMounted, currentUser, selectedDatasets,
                   mergeStorage, mergeSent>>

\* onError of validateMutation
ValidateFails ==
    /\ mergeMounted
    /\ \E repoId \in MergeRepoIds :
         /\ validating[repoId] > 0
         /\ validating' = [validating EXCEPT ![repoId] = @ - 1]
         /\ datasets' = SetStatus(datasets, repoId, "invalid")
    /\ UNCHANGED <<mergeOthers, mergeMounted, currentUser, selectedDatasets,
                   mergeStorage, mergeSent>>

\* the checkbox of a valid entry
toggleDataset ==
    /\ mergeMounted
    /\ \E i \in 1..Len(datasets) :
         /\ datasets[i].status = "valid"
         /\ selectedDatasets' = IF datasets[i].id \in selectedDatasets
                                THEN selectedDatasets \ {datasets[i].id}
                                ELSE selectedDatasets \cup {datasets[i].id}
    /\ mergeStorage' = selectedDatasets'
    /\ UNCHANGED <<mergeOthers, mergeMounted, currentUser, datasets, validating,
                   mergeSent>>

\* the checkbox over the list
handleSelectAllValid ==
    /\ mergeMounted
    /\ validDatasetIds(datasets) # {}
    /\ selectedDatasets' = IF isAllValidSelected
                           THEN selectedDatasets \ validDatasetIds(datasets)
                           ELSE selectedDatasets \cup validDatasetIds(datasets)
    /\ mergeStorage' = selectedDatasets'
    /\ UNCHANGED <<mergeOthers, mergeMounted, currentUser, datasets, validating,
                   mergeSent>>

\* the Clear Selection button of useSelectedDatasets
MergeClearSelection ==
    /\ mergeMounted
    /\ Len(datasets) > 0
    /\ selectedDatasets # {}
    /\ selectedDatasets' = {}
    /\ mergeStorage' = {}
    /\ UNCHANGED <<mergeOthers, mergeMounted, currentUser, datasets, validating,
                   mergeSent>>

\* the form is submitted with a field that passes its rules: handleMerge
SubmitMerge ==
    /\ mergeMounted
    /\ selectedValidCount >= 2
    /\ \E values \in MergeFormValues(currentUser) :
         LET request == handleMerge(values, datasets, selectedDatasets, currentUser)
         IN  IF request = None THEN UNCHANGED mergeSent
                               ELSE mergeSent' = request
    /\ UNCHANGED <<mergeOthers, mergeMounted, currentUser, datasets, selectedDatasets,
                   mergeStorage, validating>>

\* the user leaves the page: responses that arrive later change nothing
MergeUnmount ==
    /\ mergeMounted
    /\ mergeMounted' = FALSE
    /\ datasets' = <<>>
    /\ selectedDatasets' = {}
    /\ validating' = NoValidating
    /\ UNCHANGED <<mergeOthers, currentUser, mergeStorage, mergeSent>>

MergeIdle ==
    /\ mergeMounted = FALSE
    /\ currentUser = None
    /\ datasets = <<>>
    /\ selectedDatasets = {}
    /\ mergeStorage = {}
    /\ validating = NoValidating
    /\ mergeSent = None

MergeInit ==
    /\ mergeMounted = FALSE
    /\ currentUser = None
    /\ datasets = <<>>
    /\ selectedDatasets = {}
    /\ mergeStorage \in SUBSET MergeRepoIds
    /\ validating = NoValidating
    /\ mergeSent = None

MergeNext ==
    \/ MergeMount
    \/ UserLoaded
    \/ ListArrives
    \/ ManualSearch
    \/ ValidateArrives
    \/ ValidateFails
    \/ toggleDataset
    \/ handleSelectAllValid
    \/ MergeClearSelection
    \/ SubmitMerge
    \/ MergeUnmount

----------------------------------------------------------------------------
\* useSelectedEpisodes in two browser tabs of one origin: each tab has its own
\* React state, localStorage is the one thing they share

Tabs == {1, 2}

ClosedTab == [mounted |-> FALSE, datasetId |-> NoDataset, state |-> EmptyObj,
              updates |-> <<>>]

\* the mutators a user reaches in the viewer: the checkbox and Cmd/Ctrl+K,
\* Clear Selection, Select All with the ids of the episode list
TabMutations(ds) ==
    {[op |-> "toggle", ds |-> ds, ep |-> ep] : ep \in Episodes}
        \cup {[op |-> "clear", ds |-> ds]}
        \cup {[op |-> "all", ds |-> ds, ids |-> Descending(MaxEpisode)]}

\* a tab opens the viewer of a dataset: useState({}) and the mount effects
TabMount(t) ==
    /\ ~tabs[t].mounted
    /\ \E ds \in Datasets :
         LET effects == SelMountEffects(selStorage, <<>>, EmptyObj)
         IN  /\ tabs' = [tabs EXCEPT ![t] = [mounted |-> TRUE, datasetId |-> ds,
                                              state |-> EmptyObj,
                                              updates |-> effects.updates]]
             /\ selStorage' = effects.stored
    /\ lastWriter' = t
    /\ UNCHANGED <<tabOthers, lastMutator>>

\* a render of a tab: its queued updates are applied and its save effect runs
TabRender(t) ==
    /\ tabs[t].mounted
    /\ tabs[t].updates # <<>>
    /\ LET next == ApplySelUpdates(tabs[t].state, tabs[t].updates)
       IN  /\ tabs' = [tabs EXCEPT ![t].state = next, ![t].updates = <<>>]
           /\ selStorage' = SelSaveEffect(next)
    /\ lastWriter' = t
    /\ UNCHANGED <<tabOthers, lastMutator>>

\* toggleEpisode, clearSelection or selectAll is called in a tab
TabMutate(t) ==
    /\ tabs[t].mounted
    /\ Len(SelectSeq(tabs[t].updates, LAMBDA u : u.op # "set")) < MaxTabPending
    /\ \E u \in TabMutations(tabs[t].datasetId) :
         tabs' = [tabs EXCEPT ![t].updates = Append(@, u)]
    /\ lastMutator' = t
    /\ UNCHANGED <<tabOthers, selStorage, lastWriter>>

\* the tab is closed
TabUnmount(t) ==
    /\ tabs[t].mounted
    /\ tabs' = [tabs EXCEPT ![t] = ClosedTab]
    /\ UNCHANGED <<tabOthers, selStorage, lastMutator, lastWriter>>

TabsIdle ==
    /\ tabs = [t \in Tabs |-> ClosedTab]
    /\ lastMutator = 0
    /\ lastWriter = 0


TabsNext ==
    \E t \in Tabs :
        \/ TabMount(t)
        \/ TabRender(t)
        \/ TabMutate(t)
        \/ TabUnmount(t)

----------------------------------------------------------------------------
\* HomePage: the repository id input and its validation

\* texts of the input: empty, not of the form namespace/name, and three ids
InputTexts == {"", "robot", "u/l", "u/x", "u/y"}

\* /^[a-zA-Z0-9_-]+\/[a-zA-Z0-9_-]+$/.test(value)
validateDatasetFormat(value) == value \in {"u/l", "u/x", "u/y"}

\* the answer of listDatasets
ListResponse == [lerobot_datasets |-> <<"u/l">>, featured_datasets |-> <<>>]

\* allDatasets of validateDataset: both lists, or nothing while the query
\* has no data
allDatasets(listed) ==
    IF listed = None THEN <<>>
    ELSE listed[1].lerobot_datasets \o listed[1].featured_datasets

NoValidations == [value \in InputTexts |-> 0]

\* validateDataset up to its await: the status and message it sets and
\* whether it sends a validate request
validateDataset(value, listed) ==
    IF value = ""
    THEN [status |-> "idle", message |-> "", request |-> FALSE]
    ELSE IF ~validateDatasetFormat(value)
    THEN [status |-> "error",
          message |-> "Invalid format. Use: username/dataset-name",
          request |-> FALSE]
    ELSE IF Includes(allDatasets(listed), value)
    THEN [status |-> "success", message |-> "Dataset exists", request |-> FALSE]
    ELSE [status |-> "validating", message |-> "Checking dataset...",
          request |-> TRUE]

\* validateDataset after its await: the answer of the validate endpoint
ValidateAnswers ==
    {[exists |-> TRUE, message |-> Undefined],
     [exists |-> FALSE, message |-> Undefined],
     [exists |-> FALSE, message |-> "Repository not found"]}

ValidatedStatus(result) ==
    IF result.exists
    THEN [status |-> "success", message |-> "Dataset exists"]
    ELSE [status |-> "error",
          message |-> IF Truthy(result.message) THEN result.message
                      ELSE "Dataset not found on hub"]

\* the ids the page may open: found in the lists or confirmed by the hub
Confirmed ==
    hubConfirmed \cup {allDatasets(listedDatasets)[i] :
                          i \in 1..Len(allDatasets(listedDatasets))}

HomeMount ==
    /\ ~homeMounted
    /\ homeMounted' = TRUE
    /\ inputValue' = ""
    /\ validationStatus' = "idle"
    /\ validationMessage' = ""
    /\ statusOf' = ""
    /\ UNCHANGED <<homeOthers, listedDatasets, homeInflight, navigatedTo,
                   hubConfirmed>>

\* the datasets query gets its data
DatasetsLoaded ==
    /\ homeMounted
    /\ listedDatasets = None
    /\ listedDatasets' = Some(ListResponse)
    /\ UNCHANGED <<homeOthers, homeMounted, inputValue, validationStatus,
                   validationMessage, homeInflight, navigatedTo, statusOf,
                   hubConfirmed>>

\* handleInputChange: the user edits the input
handleInputChange ==
    /\ homeMounted
    /\ \E value \in InputTexts \ {inputValue} :
         LET started == validateDataset(value, listedDatasets)
         IN  /\ inputValue' = value
             /\ validationStatus' = started.status
             /\ validationMessage' = started.message
             /\ statusOf' = value
             /\ IF started.request
                THEN /\ SumOver(homeInflight, InputTexts) < MaxInFlight
                     /\ homeInflight' = [homeInflight EXCEPT ![value] = @ + 1]
                ELSE UNCHANGED homeInflight
    /\ UNCHANGED <<homeOthers, homeMounted, listedDatasets, navigatedTo,
                   hubConfirmed>>

\* a validate request is answered: validateDataset goes on after its await
ValidationArrives ==
    /\ homeMounted
    /\ \E value \in InputTexts, result \in ValidateAnswers :
         /\ homeInflight[value] > 0
         /\ homeInflight' = [homeInflight EXCEPT ![value] = @ - 1]
         /\ validationStatus' = ValidatedStatus(result).status
         /\ validationMessage' = ValidatedStatus(result).message
         /\ statusOf' = value
         /\ hubConfirmed' = IF result.exists THEN hubConfirmed \cup {value}
                            ELSE hubConfirmed
    /\ UNCHANGED <<homeOthers, homeMounted, inputValue, listedDatasets, navigatedTo>>

\* a validate request fails: the inner catch
ValidationFails ==
    /\ homeMounted
    /\ \E value \in InputTexts :
         /\ homeInflight[value] > 0
         /\ homeInflight' = [homeInflight EXCEPT ![value] = @ - 1]
         /\ statusOf' = value
    /\ validationStatus' = "error"
    /\ validationMessage' = "Dataset not found on hub"
    /\ UNCHANGED <<homeOthers, homeMounted, inputValue, listedDatasets, navigatedTo,
                   hubConfirmed>>

\* handleSearch, by the button or by Enter: handleDatasetSelect(inputValue);
\* the route changes and the page is removed, responses under way are dropped
handleSearch ==
    /\ homeMounted
    /\ validationStatus = "success"
    /\ Truthy(inputValue)
    /\ navigatedTo' = Some(inputValue)
    /\ homeMounted' = FALSE
    /\ homeInflight' = NoValidations
    /\ UNCHANGED <<homeOthers, inputValue, validationStatus, validationMessage,
                   listedDatasets, statusOf, hubConfirmed>>

\* a card of the lists is clicked: handleDatasetSelect(dataset)
CardClick ==
    /\ homeMounted
    /\ \E i \in 1..Len(allDatasets(listedDatasets)) :
         navigatedTo' = Some(allDatasets(listedDatasets)[i])
    /\ homeMounted' = FALSE
    /\ homeInflight' = NoValidations
    /\ UNCHANGED <<homeOthers, inputValue, validationStatus, validationMessage,
                   listedDatasets, statusOf, hubConfirmed>>

HomeIdle ==
    /\ homeMounted = FALSE
    /\ inputValue = ""
    /\ validationStatus = "idle"
    /\ validationMessage = ""
    /\ listedDatasets = None
    /\ homeInflight = NoValidations
    /\ navigatedTo = None
    /\ statusOf = ""
    /\ hubConfirmed = {}

HomeNext ==
    \/ HomeMount
    \/ DatasetsLoaded
    \/ handleInputChange
    \/ ValidationArrives
    \/ ValidationFails
    \/ handleSearch
    \/ CardClick

----------------------------------------------------------------------------
\* DatasetViewer: task controls, episode navigation and keyboard shortcuts
\*
\* A click or a key press is a discrete event: the updates its handlers
\* queue are rendered, and the effects of that render run, before the next
\* event is handled. Updates queued by an effect (the load effects of the
\* stores) are rendered in a later task, so an event can come first; its
\* render then applies them together with its own.

\* a JavaScript number that is a multiple of 1/2, held as twice its value
Twice(n) == 2 * n
IsInteger(x) == x % 2 = 0
IntegerOf(x) == x \div 2

\* episodeData.dataset_info.num_episodes of the datasets viewed
num_episodes == MaxEpisode + 1

\* the values the InputNumber (min 0, max num_episodes - 1) hands to
\* onChange: the null of the emptied field, here None, or a number within
\* its bounds; it has no precision, so a typed 0.5 arrives as 0.5
JumpValues == {None} \cup {Some(x) : x \in 0..Twice(num_episodes - 1)}

\* keydown events: key, Cmd/Ctrl held, tagName of the target
DigitKeys == {"1", "2", "3", "4", "5"}
KeyNames == {"ArrowLeft", "ArrowRight", "k", "p", " ", "1", "2"}
KeyTags == {"BODY", "INPUT", "TEXTAREA"}
KeyEvent(key, mod, tag) == [key |-> key, mod |-> mod, tag |-> tag]

\* parseInt(key) of a digit key
KeyNumber(key) ==
    CASE key = "1" -> 1 [] key = "2" -> 2 [] key = "3" -> 3
      [] key = "4" -> 4 [] key = "5" -> 5

\* what the user types into the add-task field, and newTask.trim()
NewTaskTexts == {"", " ", "a", " a", "b"}
Trim(text) ==
    CASE text = " " -> ""
      [] text = " a" -> "a"
      [] OTHER -> text

\* the handler of DatasetViewer: the episode it changes to, whether it
\* toggles the current episode, and the shortcuts modal
ViewerKeyDown(e, current, data, modal) ==
    LET same == [episode |-> current, toggle |-> FALSE, modal |-> modal]
    IN  IF e.tag = "INPUT" \/ e.tag = "TEXTAREA" THEN same
        ELSE IF e.key = "ArrowLeft"
             THEN IF current > 0 THEN [same EXCEPT !.episode = current - Twice(1)]
                  ELSE same
        ELSE IF e.key = "ArrowRight"
             THEN IF data /\ current < Twice(num_episodes - 1)
                  THEN [same EXCEPT !.episode = current + Twice(1)]
                  ELSE same
        ELSE IF e.key = "k" /\ e.mod THEN [same EXCEPT !.toggle = TRUE]
        ELSE IF e.key = "p" /\ e.mod THEN [same EXCEPT !.modal = TRUE]
        ELSE same

\* the handler of VideoPlayer: the paused flag of the videos after it
PlayerKeyDown(e, isPaused) ==
    IF e.tag = "INPUT" \/ e.tag = "TEXTAREA" THEN isPaused
    ELSE IF e.key = " " THEN ~isPaused
    ELSE isPaused

\* the handler of EpisodeSidebar: the label it assigns, if any
SidebarKeyDown(e, tasks) ==
    IF e.key \in DigitKeys /\ KeyNumber(e.key) - 1 < Len(tasks)
    THEN Some(tasks[KeyNumber(e.key)])
    ELSE None

\* EpisodeNavigation
canGoPrevious == currentEpisode > 0
canGoNext == currentEpisode < Twice(num_episodes - 1)
handleJumpTo(value) ==
    IF value # None /\ value[1] >= 0 /\ value[1] < Twice(num_episodes)
    THEN value ELSE None

\* the episode query of an id answers only for an episode of the dataset
HasEpisode(x) == IsInteger(x) /\ x >= 0 /\ x <= Twice(num_episodes - 1)

\* what the actions of the viewer's controls leave alone
uiOthers == <<strictMode, reqVars, isCreateModalVisible, showStatusModal,
              creationTaskId, creationStatus, viewPending, formValue, intervalTask,
              createInFlight, inflight, jobState, polledTerminal, closedJobs,
              errorsSeen, waitVars, preVars, mergeVars, tabVars, homeVars>>
uiSelection == <<selMounted, selDatasetId, selectedEpisodes, selUpdates, selStorage,
                 parityKnown, toggleParity, selFresh, selPrevSession>>
uiTasks == <<taskMounted, taskDatasetId, availableTasks, episodeTasks, taskUpdates,
             taskStorage, taskCalls, usedUnder, lastRemoved, taskFresh,
             taskPrevSession>>
uiControls == <<episodesList, isShortcutsModalVisible>>

\* setCurrentEpisodeId(target) and its render: the query of the new id has
\* its data only if it is cached, and new videos are loaded paused
Navigate(target) ==
    /\ currentEpisode' = target
    /\ IF target = currentEpisode
       THEN UNCHANGED <<episodeData, paused>>
       ELSE /\ episodeData' \in (IF HasEpisode(target) THEN BOOLEAN ELSE {FALSE})
            /\ paused' = TRUE

\* a mutator of the task store called by a control, and the render of it
UiTaskCall(u) ==
    /\ taskMounted
    /\ taskCalls < MaxTaskCalls
    /\ taskCalls' = taskCalls + 1
    /\ LET us == Append(taskUpdates, u)
           st == ApplyTaskUpdates(TaskState, us)
       IN  /\ availableTasks' = st.availableTasks
           /\ episodeTasks' = st.episodeTasks
           /\ taskStorage' = [taskStorage EXCEPT ![taskDatasetId] = TaskSaveEffect(st)]
           /\ lastRemoved' = LastRemoved(us)
    /\ taskUpdates' = <<>>
    /\ usedUnder' = IF u.op = "add" \/ (u.op = "setEpisode" /\ u.task # Undefined)
                    THEN [usedUnder EXCEPT ![taskDatasetId] = @ \cup {u.task}]
                    ELSE usedUnder
    /\ taskFresh' = FALSE
    /\ taskPrevSession' = EmptyTaskState
    /\ UNCHANGED <<taskMounted, taskDatasetId>>

\* toggleEpisode called by Cmd/Ctrl+K, and the render of it
UiToggleCall(ep) ==
    /\ selMounted
    /\ IF selDatasetId = NoDataset
       THEN UNCHANGED <<selectedEpisodes, selUpdates, selStorage, toggleParity,
                        selFresh, selPrevSession>>
       ELSE /\ selectedEpisodes' = ApplySelUpdates(selectedEpisodes,
                   Append(selUpdates, [op |-> "toggle", ds |-> selDatasetId, ep |-> ep]))
            /\ selUpdates' = <<>>
            /\ selStorage' = SelSaveEffect(selectedEpisodes')
            /\ toggleParity' = IF parityKnown
                               THEN [toggleParity EXCEPT ![ep] = 1 - @]
                               ELSE toggleParity
            /\ selFresh' = FALSE
            /\ selPrevSession' = EmptyObj
    /\ UNCHANGED <<selMounted, selDatasetId, parityKnown>>

\* the first render of DatasetViewer and its hooks, and their mount effects
UiMount ==
    /\ ~viewerMounted /\ ~selMounted /\ ~taskMounted
    /\ viewerMounted' = TRUE
    /\ \E e \in Episodes : currentEpisode' = Twice(e)
    /\ episodeData' = FALSE
    /\ episodesList' = FALSE
    /\ paused' = TRUE
    /\ isShortcutsModalVisible' = FALSE
    /\ LET first == SelMountEffects(selStorage, <<>>, EmptyObj)
           second == SelMountEffects(first.stored, first.updates, EmptyObj)
           res == IF strictMode THEN second ELSE first
       IN  /\ selUpdates' = res.updates
           /\ selStorage' = res.stored
           /\ parityKnown' = CountFrom(ApplySelUpdates(EmptyObj, res.updates),
                                       selDatasetId)
    /\ selMounted' = TRUE
    /\ selectedEpisodes' = EmptyObj
    /\ toggleParity' = ZeroParity
    /\ selFresh' = TRUE
    /\ LET first == TaskEffects(taskStorage[taskDatasetId], <<>>, EmptyTaskState)
           second == TaskEffects(first.stored, first.updates, EmptyTaskState)
           res == IF strictMode THEN second ELSE first
       IN  /\ taskUpdates' = res.updates
           /\ taskStorage' = [taskStorage EXCEPT ![taskDatasetId] = res.stored]
    /\ taskMounted' = TRUE
    /\ availableTasks' = <<>>
    /\ episodeTasks' = EmptyObj
    /\ taskFresh' = TRUE
    /\ lastRemoved' = NoLabel
    /\ UNCHANGED <<uiOthers, selDatasetId, selPrevSession, taskCalls, taskDatasetId,
                   usedUnder, taskPrevSession>>

\* the episode query delivers the data of the current episode
EpisodeArrives ==
    /\ viewerMounted
    /\ ~episodeData
    /\ HasEpisode(currentEpisode)
    /\ episodeData' = TRUE
    /\ UNCHANGED <<uiOthers, uiSelection, uiTasks, uiControls, viewerMounted,
                   currentEpisode, paused>>

\* the episodes query, enabled once episodeData is there, delivers the list
EpisodesListArrives ==
    /\ viewerMounted
    /\ episodeData
    /\ ~episodesList
    /\ episodesList' = TRUE
    /\ UNCHANGED <<uiOthers, uiSelection, uiTasks, viewerMounted, episodeData,
                   currentEpisode, paused, isShortcutsModalVisible>>

\* the render of the updates queued by the load effects
UiRender ==
    /\ viewerMounted
    /\ selUpdates # <<>> \/ taskUpdates # <<>>
    /\ selectedEpisodes' = ApplySelUpdates(selectedEpisodes, selUpdates)
    /\ selUpdates' = <<>>
    /\ selStorage' = IF selUpdates # <<>> THEN SelSaveEffect(selectedEpisodes')
                     ELSE selStorage
    /\ LET st == ApplyTaskUpdates(TaskState, taskUpdates)
       IN  /\ availableTasks' = st.availableTasks
           /\ episodeTasks' = st.episodeTasks
           /\ taskStorage' = IF taskUpdates # <<>>
                             THEN [taskStorage EXCEPT ![taskDatasetId] = TaskSaveEffect(st)]
                             ELSE taskStorage
    /\ taskUpdates' = <<>>
    /\ lastRemoved' = IF taskUpdates # <<>> THEN LastRemoved(taskUpdates) ELSE lastRemoved
    /\ UNCHANGED <<uiOthers, uiControls, viewerMounted, episodeData, currentEpisode,
                   paused, selMounted, selDatasetId, parityKnown, toggleParity,
                   selFresh, selPrevSession, taskMounted, taskDatasetId, taskCalls,
                   usedUnder, taskFresh, taskPrevSession>>

\* 'View New Dataset': the route changes to another dataset on the same
\* instance, which keeps its state; the effects keyed by the dataset run,
\* and the queries of the new key have data only if it is cached
UiSwitchDataset ==
    /\ viewerMounted
    /\ \E ds \in Datasets \ {taskDatasetId} :
         LET st == ApplyTaskUpdates(TaskState, taskUpdates)
             res == TaskEffects(taskStorage[ds], <<>>, st)
         IN  /\ taskDatasetId' = ds
             /\ availableTasks' = st.availableTasks
             /\ episodeTasks' = st.episodeTasks
             /\ taskUpdates' = res.updates
             /\ taskStorage' = [taskStorage EXCEPT ![ds] = res.stored]
             /\ selDatasetId' = ds
             /\ selectedEpisodes' = ApplySelUpdates(selectedEpisodes, selUpdates)
             /\ parityKnown' = CountFrom(selectedEpisodes', ds)
    /\ selUpdates' = <<>>
    /\ selStorage' = IF selUpdates # <<>> THEN SelSaveEffect(selectedEpisodes')
                     ELSE selStorage
    /\ toggleParity' = ZeroParity
    /\ lastRemoved' = LastRemoved(taskUpdates)
    /\ taskFresh' = FALSE
    /\ taskPrevSession' = EmptyTaskState
    /\ episodeData' \in (IF HasEpisode(currentEpisode) THEN BOOLEAN ELSE {FALSE})
    /\ episodesList' \in BOOLEAN
    /\ paused' = TRUE
    /\ UNCHANGED <<uiOthers, viewerMounted, currentEpisode, isShortcutsModalVisible,
                   selMounted, selFresh, selPrevSession, taskMounted, taskCalls,
                   usedUnder>>

\* TaskManagement, rendered with episodeData: Add or Enter in the field
handleAddTask(text) ==
    /\ viewerMounted
    /\ episodeData
    /\ LET trimmedTask == Trim(text)
       IN  IF trimmedTask = "" \/ Includes(availableTasks, trimmedTask)
           THEN UNCHANGED uiTasks
           ELSE UiTaskCall([op |-> "add", task |-> trimmedTask])
    /\ UNCHANGED <<uiOthers, uiSelection, uiControls, viewerMounted, episodeData,
                   currentEpisode, paused>>

\* the close icon of the tag of a label
handleRemoveTask(index) ==
    /\ viewerMounted
    /\ episodeData
    /\ index \in 1..Len(availableTasks)
    /\ UiTaskCall([op |-> "remove", task |-> availableTasks[index]])
    /\ UNCHANGED <<uiOthers, uiSelection, uiControls, viewerMounted, episodeData,
                   currentEpisode, paused>>

\* the Select of an episode row of the sidebar, rendered while the list of
\* labels is not empty: one of its options, or its clear icon
SelectEpisodeTask(episodeId, option) ==
    /\ viewerMounted
    /\ episodesList
    /\ Len(availableTasks) > 0
    /\ option \in 0..Len(availableTasks)
    /\ option = 0 => getEpisodeTask(episodeId) # Undefined
    /\ UiTaskCall([op |-> "setEpisode", episodeId |-> episodeId,
                   task |-> IF option = 0 THEN Undefined ELSE availableTasks[option]])
    /\ UNCHANGED <<uiOthers, uiSelection, uiControls, viewerMounted, episodeData,
                   currentEpisode, paused>>

\* the buttons of EpisodeNavigation, rendered with episodeData
FirstButton ==
    /\ viewerMounted /\ episodeData
    /\ canGoPrevious
    /\ Navigate(0)
    /\ UNCHANGED <<uiOthers, uiSelection, uiTasks, uiControls, viewerMounted>>

PreviousButton ==
    /\ viewerMounted /\ episodeData
    /\ canGoPrevious
    /\ Navigate(currentEpisode - Twice(1))
    /\ UNCHANGED <<uiOthers, uiSelection, uiTasks, uiControls, viewerMounted>>

NextButton ==
    /\ viewerMounted /\ episodeData
    /\ canGoNext
    /\ Navigate(currentEpisode + Twice(1))
    /\ UNCHANGED <<uiOthers, uiSelection, uiTasks, uiControls, viewerMounted>>

LastButton ==
    /\ viewerMounted /\ episodeData
    /\ canGoNext
    /\ Navigate(Twice(num_episodes - 1))
    /\ UNCHANGED <<uiOthers, uiSelection, uiTasks, uiControls, viewerMounted>>

\* the InputNumber of EpisodeNavigation
JumpTo(value) ==
    /\ viewerMounted /\ episodeData
    /\ LET target == handleJumpTo(value)
       IN  IF target = None
           THEN UNCHANGED <<currentEpisode, episodeData, paused>>
           ELSE Navigate(target[1])
    /\ UNCHANGED <<uiOthers, uiSelection, uiTasks, uiControls, viewerMounted>>

\* a row of the sidebar: onEpisodeClick
EpisodeClick(episodeId) ==
    /\ viewerMounted /\ episodesList
    /\ Navigate(Twice(episodeId))
    /\ UNCHANGED <<uiOthers, uiSelection, uiTasks, uiControls, viewerMounted>>

\* a keydown event on the window: the listener of the viewer, the one of
\* VideoPlayer while it is rendered (with episodeData) and the one of
\* EpisodeSidebar while it is rendered (with episodesList). The keys that
\* hand the current episode to a store are pressed at whole episode ids.
KeyDown(key, mod, tag) ==
    /\ viewerMounted
    /\ LET e == KeyEvent(key, mod, tag)
           v == ViewerKeyDown(e, currentEpisode, episodeData, isShortcutsModalVisible)
           assigned == IF episodesList THEN SidebarKeyDown(e, availableTasks)
                       ELSE None
       IN  /\ (v.toggle \/ assigned # None) => IsInteger(currentEpisode)
           /\ IF v.episode # currentEpisode
              THEN Navigate(v.episode)
              ELSE /\ paused' = IF episodeData THEN PlayerKeyDown(e, paused)
                                ELSE paused
                   /\ UNCHANGED <<currentEpisode, episodeData>>
           /\ isShortcutsModalVisible' = v.modal
           /\ IF v.toggle THEN UiToggleCall(IntegerOf(currentEpisode))
              ELSE UNCHANGED uiSelection
           /\ IF assigned # None
              THEN UiTaskCall([op |-> "setEpisode",
                               episodeId |-> IntegerOf(currentEpisode),
                               task |-> assigned[1]])
              ELSE UNCHANGED uiTasks
    /\ UNCHANGED <<uiOthers, viewerMounted, episodesList>>

UiUnmount ==
    /\ viewerMounted
    /\ viewerMounted' = FALSE
    /\ episodeData' = FALSE
    /\ episodesList' = FALSE
    /\ paused' = TRUE
    /\ isShortcutsModalVisible' = FALSE
    /\ currentEpisode' = 0
    /\ selMounted' = FALSE
    /\ selPrevSession' = selectedEpisodes
    /\ selFresh' = TRUE
    /\ selectedEpisodes' = EmptyObj
    /\ selUpdates' = <<>>
    /\ parityKnown' = FALSE
    /\ toggleParity' = ZeroParity
    /\ taskMounted' = FALSE
    /\ taskPrevSession' = TaskState
    /\ taskFresh' = TRUE
    /\ availableTasks' = <<>>
    /\ episodeTasks' = EmptyObj
    /\ taskUpdates' = <<>>
    /\ lastRemoved' = NoLabel
    /\ UNCHANGED <<uiOthers, selDatasetId, selStorage, taskCalls, taskDatasetId,
                   taskStorage, usedUnder>>

UiIdle ==
    /\ currentEpisode = 0
    /\ episodesList = FALSE
    /\ paused = TRUE
    /\ isShortcutsModalVisible = FALSE

\* the task store driven through its controls
TaskUiNext ==
    \/ UiMount
    \/ EpisodeArrives
    \/ EpisodesListArrives
    \/ UiRender
    \/ UiSwitchDataset
    \/ \E text \in NewTaskTexts : handleAddTask(text)
    \/ \E index \in 1..MaxTaskCalls : handleRemoveTask(index)
    \/ \E ep \in Episodes, option \in 0..MaxTaskCalls : SelectEpisodeTask(ep, option)
    \/ \E key \in DigitKeys : KeyDown(key, FALSE, "BODY")
    \/ UiUnmount

\* navigation and the keyboard
KeysNext ==
    \/ UiMount
    \/ EpisodeArrives
    \/ EpisodesListArrives
    \/ UiRender
    \/ handleAddTask("a")
    \/ FirstButton
    \/ PreviousButton
    \/ NextButton
    \/ LastButton
    \/ \E value \in JumpValues : JumpTo(value)
    \/ \E ep \in Episodes : EpisodeClick(ep)
    \/ \E key \in KeyNames, mod \in BOOLEAN, tag \in KeyTags : KeyDown(key, mod, tag)
    \/ UiUnmount

ExtraIdle == TabsIdle /\ HomeIdle /\ UiIdle

----------------------------------------------------------------------------
\* Specifications

\* the build: development (StrictMode doubles the mount effects) or production
EnvInit == strictMode \in BOOLEAN

\* the stores, before the first mount
UtilIdle == WaitIdle /\ PreIdle /\ MergeIdle /\ ExtraIdle

InitStores == EnvInit /\ SelInit /\ TaskInit /\ ReqIdle /\ PollIdle /\ UtilIdle

\* the arguments of a call of createDatasetRequest
InitReq == strictMode = FALSE /\ SelInit /\ TaskInit /\ ReqInit /\ PollIdle
           /\ UtilIdle

SpecSel == InitStores /\ [][SelNext]_vars
SpecTask == InitStores /\ [][TaskNext]_vars
SpecReq == InitReq /\ [][ReqNext]_vars

\* the viewer of dataset A in the production build
InitPoll == strictMode = FALSE /\ SelInit /\ TaskInit /\ ReqIdle /\ PollIdle
            /\ UtilIdle

SpecPoll == InitPoll /\ [][PollNext]_vars

\* the same with the scheduling of the browser and the server: a queued
\* update is rendered, a registered interval fires, the server works on a
\* task and a request in flight gets its response; nothing is assumed of
\* the user
PollFairness ==
    /\ SF_vars(ViewerRender)
    /\ SF_vars(TimerTick)
    /\ WF_vars(ServerStep)
    /\ SF_vars(StatusArrives)

SpecPollLive == SpecPoll /\ PollFairness

\* a call of waitForDataset
StoresIdle == strictMode = FALSE /\ SelInit /\ TaskInit /\ ReqIdle /\ PollIdle

InitWait == StoresIdle /\ WaitCalled /\ PreIdle /\ MergeIdle /\ ExtraIdle

SpecWait == InitWait /\ [][WaitNext]_vars

\* the same with every request answered or failed and every timer fired
WaitFairness ==
    /\ WF_vars(WaitResponse \/ WaitRequestFails)
    /\ WF_vars(WaitTimerFires)

SpecWaitLive == SpecWait /\ WaitFairness

\* the preloader, before its mount
InitPre == StoresIdle /\ WaitIdle /\ PreIdle /\ MergeIdle /\ ExtraIdle

SpecPre == InitPre /\ [][PreNext]_vars

\* the merge page, before its mount, with the selection an earlier visit
\* left in localStorage
InitMerge == StoresIdle /\ WaitIdle /\ PreIdle /\ MergeInit /\ ExtraIdle

SpecMerge == InitMerge /\ [][MergeNext]_vars

\* two tabs of the production build, none opened yet, nothing stored
InitTabs == StoresIdle /\ WaitIdle /\ PreIdle /\ MergeIdle /\ ExtraIdle

SpecTabs == InitTabs /\ [][TabsNext]_vars

\* the home page, before its mount
InitHome == StoresIdle /\ WaitIdle /\ PreIdle /\ MergeIdle /\ ExtraIdle

SpecHome == InitHome /\ [][HomeNext]_vars

\* the viewer's task controls, and its navigation and keyboard, production build
InitTaskUi == StoresIdle /\ WaitIdle /\ PreIdle /\ MergeIdle /\ ExtraIdle

SpecTaskUi == InitTaskUi /\ [][TaskUiNext]_vars

InitKeys == StoresIdle /\ WaitIdle /\ PreIdle /\ MergeIdle /\ ExtraIdle

SpecKeys == InitKeys /\ [][KeysNext]_vars

----------------------------------------------------------------------------
\* C1: starting from an empty selection of the active dataset, once the queued
\* toggles are rendered, isSelected(e) holds exactly for the episodes toggled
\* an odd number of times
C1_ToggleParity ==
    (selMounted /\ selUpdates = <<>> /\ parityKnown)
    => \A e \in Episodes : isSelected(e) <=> (toggleParity[e] = 1)

\* toggles were counted and rendered, and left an episode selected
C1_Witness ==
    /\ selMounted /\ selUpdates = <<>> /\ parityKnown
    /\ \E e \in Episodes : toggleParity[e] = 1 /\ isSelected(e)

LabelsOf(st) ==
    {st.availableTasks[i] : i \in 1..Len(st.availableTasks)}
       \cup {st.episodeTasks[k] : k \in DOMAIN st.episodeTasks}

C5_NoCrossDatasetLeak ==
    /\ taskMounted => LabelsOf(TaskState) \subseteq usedUnder[taskDatasetId]
    /\ \A ds \in Datasets :
         taskStorage[ds] # None =>
            LabelsOf(JSONparse(taskStorage[ds][1])) \subseteq usedUnder[ds]

\* C6: after a fresh mount has loaded (and before any mutation), the state of
\* each store is the state its previous session ended with
C6_SurvivesSessions ==
    /\ (selMounted /\ selFresh /\ selUpdates = <<>>)
          => selectedEpisodes = selPrevSession
    /\ (taskMounted /\ taskFresh /\ taskUpdates = <<>>)
          => TaskState = taskPrevSession

\* the selected episodes for which getEpisodeTask returns a value / a non-empty value
ReqSelected == {reqInput.selectedEpisodes[i] : i \in 1..Len(reqInput.selectedEpisodes)}
ReqWithOverride == {e \in ReqSelected : reqInput.getEpisodeTask[e] # Undefined}
ReqWithLabel == {e \in ReqSelected : Truthy(reqInput.getEpisodeTask[e])}
ReqReturned == reqOutput # None /\ ~reqOutput[1].threw
ReqMapPresent == reqOutput[1].episode_index_task_map # None

\* C3 as stated: the payload has episode_index_task_map exactly when
\* getEpisodeTask returns an override for a selected episode
C3_MapIffOverride ==
    ReqReturned => (ReqMapPresent <=> ReqWithOverride # {})

\* C3 amended: the payload has episode_index_task_map exactly when
\* getEpisodeTask returns a non-empty override for a selected episode
C3_MapIffNonEmptyOverride ==
    ReqReturned => (ReqMapPresent <=> ReqWithLabel # {})

\* a payload with a map, built from a selection with and without overrides
C3_Witness ==
    /\ ReqReturned
    /\ ReqMapPresent
    /\ \E e \in ReqSelected : reqInput.getEpisodeTask[e] = Undefined

\* the payload's fields apart from the map are the arguments
ReqFieldsCopied ==
    /\ reqOutput[1].original_repo_id = reqInput.datasetId
    /\ reqOutput[1].new_repo_id = reqInput.newRepoId
    /\ reqOutput[1].selected_episodes = reqInput.selectedEpisodes

\* the map's keys are the episodes of eps and its values their overrides
ReqMapIsOver(eps) ==
    LET map == reqOutput[1].episode_index_task_map[1]
    IN  /\ DOMAIN map = {NumberToString(e) : e \in eps}
        /\ \A e \in eps : map[NumberToString(e)] = reqInput.getEpisodeTask[e]

\* C4 as stated: the fields are the arguments and the map, when present, holds
\* exactly the selected episodes that have an override, each with its override
C4_PayloadContents ==
    ReqReturned =>
        /\ ReqFieldsCopied
        /\ ReqMapPresent => ReqMapIsOver(ReqWithOverride)

\* C4 amended: the fields are the arguments and the map, when present, holds
\* exactly the selected episodes that have a non-empty override, each with it
C4_PayloadContentsNonEmpty ==
    ReqReturned =>
        /\ ReqFieldsCopied
        /\ ReqMapPresent => ReqMapIsOver(ReqWithLabel)

\* a payload with a map although an unselected episode has an override too
C4_Witness ==
    /\ ReqReturned
    /\ ReqMapPresent
    /\ \E e \in Episodes \ ReqSelected : Truthy(reqInput.getEpisodeTask[e])

\* a status request for the task is issued in this step
RequestIssued(task) ==
    \E atSend \in JobStatuses :
        inflight'[<<task, atSend>>] > inflight[<<task, atSend>>]

IsTerminal(status) == status.status \in {"completed", "failed"}

\* C7: a status request for a task is issued only while the viewer is mounted
\* with that task as creationTaskId, and never after a completed or failed
\* response of the task has been processed
C7_PollsOnlyWhileActive ==
    [][\A task \in Jobs :
          RequestIssued(task) =>
             /\ viewerMounted'
             /\ creationTaskId' = task
             /\ task \notin polledTerminal
      ]_vars

\* C8: a status request is issued either by the render that sets the task id
\* (the initial poll) or by a tick of the interval, a step that does nothing
\* but issue the request; no other render issues one
C8_PollsAtInterval ==
    [][\A task \in Jobs :
          RequestIssued(task) =>
             \/ creationTaskId # task /\ creationTaskId' = task
             \/ UNCHANGED <<strictMode, selVars, taskVars, reqVars, viewCommitted,
                            viewPending, formValue, intervalTask, createInFlight,
                            jobState, viewHistory>>
      ]_vars

\* C9: with the server working and every request answered, a task being
\* polled leads to the polling stopped, and, in a viewer that stays mounted
\* with its status modal open, to a completed or failed status shown
C9_PollingEnds ==
    /\ (creationTaskId # 0) ~> (creationTaskId = 0)
    /\ (creationTaskId # 0) ~>
          (~viewerMounted \/ ~showStatusModal \/ IsTerminal(creationStatus))

\* C10: processing a failed status request leaves creationTaskId,
\* creationStatus, the queued updates, the selection and the create form as
\* they are, and the interval registered, so that its next tick polls
C10_FailedPollChangesNothing ==
    [][errorsSeen' # errorsSeen =>
          /\ UNCHANGED <<creationTaskId, creationStatus, viewPending>>
          /\ UNCHANGED <<selectedEpisodes, selUpdates, selStorage>>
          /\ UNCHANGED <<isCreateModalVisible, formValue>>
          /\ UNCHANGED intervalTask
          /\ intervalTask # 0 => viewerMounted' /\ InFlightCount' < MaxInFlight
      ]_vars

\* a status request has failed, and the task is still polled: nothing is
\* queued, the interval is registered and its tick can issue a request
C10_Witness ==
    /\ viewerMounted
    /\ errorsSeen > 0
    /\ creationTaskId # 0
    /\ intervalTask = creationTaskId
    /\ viewPending = NoPending
    /\ InFlightCount = 0
    /\ polledTerminal = {}

WaitEnded == waitPc \in {"resolved", "rejected"}

\* C11: a wait in which a status request failed goes on: it ends only with a
\* ready response, an error response, or with the cap of maxRetries reached
C11_FailedRequestAbsorbed ==
    (waitFailures > 0 /\ WaitEnded) =>
        \/ waitLast.status \in {"ready", "error"}
        \/ retries = maxRetries

\* the outcome of waitForDataset is the one of the responses it received
WaitOutcomeOfResponses ==
    /\ waitPc = "resolved" => waitLast.status = "ready"
    /\ (waitPc = "rejected" /\ waitFailures = 0) =>
          \/ /\ waitLast.status = "error"
             /\ waitError \in {waitLast.message, "Dataset loading failed"}
             /\ waitError # ""
          \/ /\ waitLast.status \notin {"ready", "error"}
             /\ waitResponses = maxRetries
             /\ waitError = "Dataset loading timeout"
    \* the first ready or error response ends the wait
    /\ waitPc \in {"request", "sleep"} => waitLast.status \notin {"ready", "error"}

\* C12: waitForDataset makes at most maxRetries requests, its outcome is the
\* one of the first ready or error response or the timeout after maxRetries
\* other responses, onProgress is called once per response, and with every
\* request answered and every timer fired it ends
C12_WaitTerminates ==
    /\ [](waitRequests <= maxRetries)
    /\ []WaitOutcomeOfResponses
    /\ [](waitOnProgress => waitProgressCalls = waitResponses)
    /\ <>WaitEnded

\* the wait ended with the timeout after maxRetries responses, each of
\* them passed to onProgress
C12_Witness ==
    /\ waitPc = "rejected"
    /\ waitError = "Dataset loading timeout"
    /\ waitRequests = maxRetries
    /\ waitOnProgress
    /\ waitProgressCalls = maxRetries

\* this step is pollStatus processing a failed response of the task: a
\* response is taken, not as an error, and the status queued is the failed one
FailedProcessed(task) ==
    /\ \E atSend \in JobStatuses :
          inflight'[<<task, atSend>>] < inflight[<<task, atSend>>]
    /\ viewerMounted'
    /\ errorsSeen' = errorsSeen
    /\ viewPending'.status # None
    /\ viewPending'.status[1].task = task
    /\ viewPending'.status[1].status = "failed"

\* this step is the render of the viewer with the failed status of the task
\* as the status queued
FailedRendered(task) ==
    /\ viewerMounted /\ viewerMounted'
    /\ viewPending # NoPending /\ viewPending' = NoPending
    /\ viewPending.status # None
    /\ viewPending.status[1].task = task
    /\ viewPending.status[1].status = "failed"

PreWindow ==
    {id \in PreIds : id < preCurrent /\ id >= preCurrent - preCount}
       \cup {id \in PreIds : id > preCurrent /\ id <= preCurrent + preCount
                              /\ id < preTotal}

\* the ids within preCount of the current episode, the current one included
PreNear ==
    {id \in PreIds : id >= preCurrent - preCount /\ id <= preCurrent + preCount}

\* C14: the Map of the preloader never holds more than 2 * preloadCount + 1
\* video elements
C14_AtMostWindowPlusOne ==
    Cardinality(DOMAIN preloadedVideos) <= 2 * preCount + 1

\* the Map holds 2 * preloadCount + 1 elements, for the default preloadCount
C14_Witness ==
    /\ preMounted
    /\ preCount = DefaultPreloadCount
    /\ Cardinality(DOMAIN preloadedVideos) = 2 * preCount + 1

\* C15: after a run with a resolver that has a URL for every id, the Map has
\* an element for each of the preloadCount previous episodes (id >= 0) and of
\* the preloadCount next episodes (id < totalEpisodes)
C15_WindowPreloaded ==
    (preMounted /\ preUrls = AllUrls) =>
        \A id \in PreWindow : id \in DOMAIN preloadedVideos

\* a run with the default preloadCount and a full window on both sides
C15_Witness ==
    /\ preMounted
    /\ preUrls = AllUrls
    /\ preCount = DefaultPreloadCount
    /\ Cardinality(PreWindow) = 2 * preCount
    /\ \A id \in PreWindow : preloadedVideos[id].src = VideoUrl(id)

\* C16: a run leaves only elements of the current episode and of episodes
\* within preloadCount of it, and the elements it found outside this window,
\* the current one excepted, are released and not in the Map any more
C16_OutsideWindowEvicted ==
    [][preMounted' =>
          /\ \A id \in DOMAIN preloadedVideos' : id \in PreNear'
          /\ \A id \in DOMAIN preloadedVideos :
                id \notin PreNear' =>
                    id \in preReleased' /\ id \notin DOMAIN preloadedVideos'
      ]_vars

\* a run released an element and kept the one of the current episode
C16_Witness ==
    /\ preMounted
    /\ preReleased # {}
    /\ preCurrent \in DOMAIN preloadedVideos
    /\ DOMAIN preloadedVideos # {preCurrent}

\* the entry of a dataset in a selection state, and in the stored item
SelEntry(state, ds) == IF Has(state, ds) THEN Some(state[ds]) ELSE None
StoredSelEntry(stored, ds) ==
    IF stored = None THEN None ELSE SelEntry(JSONparse(stored[1]), ds)

\* the queue holds a toggleEpisode, selectAll or clearSelection made with ds active
QueuedFor(ds) ==
    \E i \in 1..Len(selUpdates) : selUpdates[i].op # "set" /\ selUpdates[i].ds = ds

\* the queue holds the state read by the load effect
QueuedLoad == \E i \in 1..Len(selUpdates) : selUpdates[i].op = "set"

\* C17: the selection of a dataset, in the state and in the stored item, is
\* changed only by the operations made while it was the active dataset, and
\* an operation made without a dataset id changes nothing
C17_ScopedToActiveDataset ==
    [][(selMounted /\ selMounted') =>
          /\ ~QueuedLoad =>
                \A ds \in Datasets :
                   ~QueuedFor(ds) =>
                      /\ SelEntry(selectedEpisodes', ds) = SelEntry(selectedEpisodes, ds)
                      /\ StoredSelEntry(selStorage', ds) = StoredSelEntry(selStorage, ds)
          /\ \A ds \in Datasets : QueuedFor(ds)' /\ ~QueuedFor(ds) => selDatasetId = ds
          /\ (selDatasetId = NoDataset /\ selDatasetId' = NoDataset
                 /\ ~(selUpdates # <<>> /\ selUpdates' = <<>>))
                => UNCHANGED <<selectedEpisodes, selUpdates, selStorage>>
      ]_vars

\* both datasets have a selection, made by operations, and they differ
C17_Witness ==
    /\ selMounted
    /\ ~selFresh
    /\ selUpdates = <<>>
    /\ \A ds \in Datasets : SelList(selectedEpisodes, ds) # <<>>
    /\ SelList(selectedEpisodes, "A") # SelList(selectedEpisodes, "B")
    /\ StoredSelEntry(selStorage, "B") = SelEntry(selectedEpisodes, "B")

\* the ids of a list
IdsOf(list) == {list[i] : i \in 1..Len(list)}

\* this step is a render that applies the queued updates
SelRendered ==
    selMounted /\ selMounted' /\ selUpdates # <<>> /\ selUpdates' = <<>>

C19_UniqueLabels ==
    taskMounted =>
        /\ \A i, j \in 1..Len(availableTasks) :
              availableTasks[i] = availableTasks[j] => i = j
        /\ \A i \in 1..Len(availableTasks) : availableTasks[i] # ""
        /\ getDefaultTask = IF Len(availableTasks) = 0 THEN Undefined
                            ELSE availableTasks[1]

\* C20: a request never targets one of its own source datasets: a create
\* request of the viewer has new_repo_id different from original_repo_id,
\* and a merge request has new_repo_id different from each of its dataset_ids
CreateSparesSource ==
    createInFlight # None =>
        createInFlight[1].new_repo_id # createInFlight[1].original_repo_id

MergeSparesSources ==
    mergeSent # None =>
        \A i \in 1..Len(mergeSent[1].dataset_ids) :
            mergeSent[1].dataset_ids[i] # mergeSent[1].new_repo_id

C20_NonDestructive == CreateSparesSource /\ MergeSparesSources

\* createDatasetRequest throws, and so returns no payload, for every input
\* with an empty datasetId, newRepoId or selectedEpisodes
ValidationRejectsEmpty ==
    \A in \in ReqInputs :
        (in.datasetId = "" \/ in.newRepoId = "" \/ Len(in.selectedEpisodes) = 0)
            => DOMAIN createDatasetRequest(in) = {"threw"}
               /\ createDatasetRequest(in).threw

\* C21: createDatasetRequest raises an error and returns no payload when
\* datasetId, newRepoId or selectedEpisodes is empty, and no create request of
\* the viewer has an empty selected_episodes
C21_EmptySelectionRejected ==
    /\ ValidationRejectsEmpty
    /\ createInFlight # None => Len(createInFlight[1].selected_episodes) > 0

\* a create request of the viewer is in flight
C21_Witness ==
    /\ createInFlight # None
    /\ ~createInFlight[1].threw

\* every mutation called in a tab that is still open has been rendered, and
\* with it persisted
TabsPersisted == \A t \in Tabs : tabs[t].updates = <<>>

StoredIs(state) == selStorage = Some(JSONstringify(state))

\* C22 as stated: with both tabs open, once every mutation has been
\* persisted, the stored item is the whole state of the tab that mutated last
C22_LastMutatorWins ==
    (lastMutator # 0 /\ (\A t \in Tabs : tabs[t].mounted) /\ TabsPersisted)
        => StoredIs(tabs[lastMutator].state)

\* C22 amended: the stored item is the whole state, every dataset included,
\* of the tab whose save effect ran last, whatever the other tab holds
C22_LastWriterWins ==
    (lastWriter # 0 /\ tabs[lastWriter].mounted)
        => StoredIs(tabs[lastWriter].state)

\* both tabs have mutated and persisted, their states differ and more than
\* one dataset has a list in the item
C22_Witness ==
    /\ \A t \in Tabs : tabs[t].mounted
    /\ TabsPersisted
    /\ lastWriter # 0
    /\ lastMutator # 0
    /\ lastWriter # lastMutator
    /\ tabs[1].state # tabs[2].state
    /\ DOMAIN tabs[lastWriter].state = Datasets

\* a response or a failure of a status request of the task is processed in this step
PollAnswered(task) ==
    /\ viewerMounted'
    /\ \E atSend \in JobStatuses :
          inflight'[<<task, atSend>>] < inflight[<<task, atSend>>]

\* the response processed in this step says that the task is completed
CompletedAnswered(task) ==
    /\ PollAnswered(task)
    /\ viewPending'.status # None
    /\ viewPending'.status[1].task = task
    /\ viewPending'.status[1].status = "completed"

\* C23: a creation job clears the selection at most once, when its first
\* completed response is processed: no failed status, failed request or later
\* response of the job changes the selection
C23_ClearsAtMostOnce ==
    [][\A task \in Jobs :
          (PollAnswered(task)
             /\ ~(CompletedAnswered(task) /\ task \notin polledTerminal))
              => selUpdates' = selUpdates]_vars

\* C24: the status shown is monotone per job: a completed or failed status
\* is never followed by a pending or running status of the same task, and a
\* task whose status the user closed the modal on never sets the status again
C24_StatusMonotone ==
    [][/\ (IsTerminal(creationStatus) /\ creationStatus'.task = creationStatus.task)
            => IsTerminal(creationStatus')
       /\ creationStatus' # creationStatus
            => creationStatus'.task \notin closedJobs
      ]_vars

\* C25: the validation status refers to the current input text, and the page
\* opens a dataset only if that very id was found in the lists or confirmed
\* by the validate endpoint
C25_StatusOfCurrentInput ==
    /\ homeMounted => statusOf = inputValue
    /\ navigatedTo # None => navigatedTo[1] \in Confirmed

\* the repository ids of a sequence
IdSet(ids) == {ids[i] : i \in 1..Len(ids)}

\* C26: the dataset_ids of a merge request that is sent hold at least two
\* distinct repository ids, each valid in the list and selected
C26_TwoValidSelected ==
    [][mergeSent' # mergeSent =>
          LET ids == IdSet(mergeSent'[1].dataset_ids)
          IN  /\ Cardinality(ids) >= 2
              /\ ids \subseteq selectedDatasets
              /\ ids \subseteq validDatasetIds(datasets)
      ]_vars

\* the window of episode c in a dataset of total episodes
WindowAt(c, total, count) ==
    {id \in PreIds : id < c /\ id >= c - count}
       \cup {id \in PreIds : id > c /\ id <= c + count /\ id < total}

\* this step is the render after a navigation to a neighbouring episode of
\* the dataset: with the data of the new episode (it was cached), or while it
\* is loading, with a total of 0 and a resolver that returns no URL
NavigationRender ==
    /\ preMounted /\ preMounted'
    /\ preTotal > 0
    /\ preCurrent < preTotal
    /\ preCurrent' \in {preCurrent - 1, preCurrent + 1}
    /\ preCurrent' < preTotal
    /\ preCount' = preCount
    /\ \/ preTotal' = preTotal /\ preUrls' = preUrls
       \/ preTotal' = 0 /\ preUrls' = NoUrls

\* C27: after a navigation to a neighbouring episode the element of every
\* episode in both the old and the new window is kept, neither released nor
\* replaced, also while the data of the new episode is loading
C27_SharedWindowKept ==
    [][NavigationRender =>
          \A id \in DOMAIN preloadedVideos :
              (/\ id \in WindowAt(preCurrent, preTotal, preCount)
               /\ id \in WindowAt(preCurrent', preTotal, preCount))
                  => /\ id \in DOMAIN preloadedVideos'
                     /\ preloadedVideos'[id] = preloadedVideos[id]
                     /\ id \notin preReleased'
      ]_vars

\* C28: with the task store driven through the viewer's controls, every
\* episode override is a label of the task list; and a digit key k pressed
\* while the sidebar is rendered assigns the k-th label to the current
\* episode if the list has k labels, and changes nothing otherwise
OverridesAreLabels ==
    \A k \in DOMAIN episodeTasks : Includes(availableTasks, episodeTasks[k])

DigitKeyAssigns ==
    \A key \in DigitKeys :
        KeyDown(key, FALSE, "BODY") =>
            IF episodesList /\ KeyNumber(key) <= Len(availableTasks)
            THEN GetNum(episodeTasks', IntegerOf(currentEpisode))
                     = availableTasks[KeyNumber(key)]
            ELSE UNCHANGED <<availableTasks, episodeTasks, taskUpdates>>

C28_OverridesAreLabels ==
    /\ [](taskMounted => OverridesAreLabels)
    /\ [][DigitKeyAssigns]_vars

\* C29: the current episode id, which starts within [0, num_episodes - 1],
\* stays within it under the navigation buttons, the jump-to input and the
\* arrow keys; and First and Previous do nothing at episode 0, Next and Last
\* nothing at the last episode
InRange(x) == x >= 0 /\ x <= Twice(num_episodes - 1)

EdgeButtonsOff ==
    /\ currentEpisode = 0 => ~(FirstButton \/ PreviousButton)
    /\ currentEpisode = Twice(num_episodes - 1) => ~(NextButton \/ LastButton)

C29_EpisodeInRange ==
    /\ [](viewerMounted => InRange(currentEpisode))
    /\ [][EdgeButtonsOff]_vars

\* C30: a keydown whose target is an INPUT or a TEXTAREA element changes
\* neither the current episode, nor the selection, nor the playback state,
\* nor the task override of any episode
TypedKey ==
    \E key \in KeyNames, mod \in BOOLEAN, tag \in {"INPUT", "TEXTAREA"} :
        KeyDown(key, mod, tag)

C30_TypingIsNoShortcut ==
    [][TypedKey => UNCHANGED <<currentEpisode, selectedEpisodes, selUpdates, paused,
                               episodeTasks, taskUpdates>>]_vars

====
